---- MODULE Spec2Model ----
(***************************************************************************)
(* A model of the relay memory engine (nebullii/relay).                    *)
(*                                                                         *)
(*   Spec         the state store: Store.Create / Get / Put / Patch of     *)
(*                internal/state, driven by concurrent patch handlers,     *)
(*                with the artifact rows and the event log they touch.     *)
(*   SpecHeader   State.Header, the size-capped projection.                *)
(*   SpecCompact  Compact, applied twice to one in-memory state.           *)
(*   SpecCache    the cache table: Get / Set / Invalidate of the cache.    *)
(*   SpecInvoke   handleCapInvoke, the capability invocation handler.      *)
(*   SpecKey      cache.Key with normalizeArgs.                            *)
(*   SpecArtifacts  the artifact store: Put / Get / List.                 *)
(*   SpecPreview  generatePreview with sanitizePreview.                    *)
(*   SpecBundle   Client.BuildRPB with rpb.Bundle.Validate.                *)
(*   SpecEvents   the event store: Append / List / Since, and a reader     *)
(*                tailing one thread with Since.                           *)
(*   SpecProxy    the proxy's plain HTTP handler and emit.                 *)
(*   SpecTunnel   the proxy's CONNECT handler and CA.CertForHost.          *)
(*   SpecLock     local.Open / Engine.Close with the file lock;            *)
(*                SpecLockLive adds weak fairness of its steps.            *)
(*   SpecApply    State.ApplyPatch on one in-memory state.                 *)
(*   SpecCA       LoadOrCreateCA and CA.CertForHost across starts.         *)
(*                                                                         *)
(* Strings that the code splits or concatenates are sequences of tokens.   *)
(***************************************************************************)
EXTENDS Integers, Sequences, FiniteSets, TLC

VARIABLES
    \* ---- state store (Spec) ----
    rows,       \* the states table: set of [thread_id, version, data, closed]
    files,      \* threads/<id>/state.json : thread id -> mirrored state
    created,    \* thread ids inserted into the threads table
    arts,       \* refs of the rows of the artifacts table
    events,     \* the event log, in append order
    pc,         \* worker -> position inside the patch handler
    wThread,    \* worker -> thread id of the request
    wOps,       \* worker -> index of the patch batch of the request
    wCur,       \* worker -> state read by Store.Get
    wNext,      \* worker -> state computed by ApplyPatch
    wMeta,      \* worker -> bookkeeping of the call in flight
    hist,       \* completed patch calls, in completion order
    calls,      \* number of patch calls started so far
    \* ---- header (SpecHeader) ----
    hIn,        \* the state handed to Header
    hOut,       \* the header it returned
    hPhase,
    \* ---- compaction (SpecCompact) ----
    cSt,        \* the state the caller holds (mutated in place by Compact)
    cPre,       \* its value before the first call
    cMid,       \* its value after the first call
    cErr,       \* the errors returned by the calls so far
    cPhase,
    \* ---- cache and capability invocation (SpecCache, SpecInvoke) ----
    cache,      \* the cache table: key -> row
    now,        \* wall clock, in ticks
    nAdv,       \* number of clock advances so far
    hop,        \* threads.hop_count
    runs,       \* number of handler executions so far
    ipc,        \* invocation worker -> position inside handleCapInvoke
    iReq,       \* invocation worker -> request
    iRow,       \* invocation worker -> row read by Cache.Get
    iRes,       \* invocation worker -> handler result
    ilog,       \* completed cache and invocation calls, in completion order
    gen,        \* key -> number of Set / Invalidate calls made on it
    iArts,      \* refs of the artifacts the handlers stored
    \* ---- cache key (SpecKey) ----
    kA,         \* the inputs of one call of Key
    kB,         \* the inputs of another
    kOut,       \* the keys returned for them
    kPhase,
    \* ---- artifact store (SpecArtifacts) ----
    aRows,      \* the artifacts table: ref -> row (ref is the primary key)
    aFiles,     \* the artifact directories: path -> content
    aLog,       \* completed Put calls, in order
    aRead,      \* what the last Open followed by a read returned
    \* ---- previews (SpecPreview) ----
    pContent,   \* the content handed to generatePreview
    pType,      \* its artifact type
    pOut,       \* the preview returned
    pPhase,
    \* ---- prompt bundle (SpecBundle) ----
    bIn,        \* the inputs of BuildRPB and the thread it reads
    bOut,       \* what its last call returned
    bPrev,      \* what the call before returned
    bPhase,
    bStore,     \* the threads, state versions and events of the engine
    \* ---- event log (SpecEvents) ----
    eRows,      \* the events table, in insertion order
    eCounter,   \* eventCounter
    eClock,     \* the wall clock, in tenths of a second
    eTicks,     \* number of clock advances so far
    ePc,        \* worker -> position inside Append
    eReq,       \* worker -> the Append it executes
    eTmp,       \* worker -> the counter value it read
    eEv,        \* worker -> the event it built
    eLog,       \* completed patches and appends, in completion order
    eVersion,   \* thread -> version of its latest state
    eOut,       \* what the last List or Since returned
    eCalls,     \* number of patches and appends started so far
    tlLast,     \* tail: the id of the last event the reader received
    tlSeen,     \* tail: the ids it received, in the order it received them
    tlShort,    \* tail: a request returned fewer events than were due
    \* ---- proxy, plain HTTP (SpecProxy) ----
    xReq,       \* the request and what the upstream server answers
    xCaptures,  \* the events OnResponse was called with
    xResp,      \* the response written to the client
    xPhase,
    \* ---- proxy, CONNECT tunnels (SpecTunnel) ----
    tPc,        \* connection -> position of its handler in handleCONNECT
    tConn,      \* connection -> state of the client connection
    tHost,      \* connection -> hostname of the CONNECT request
    tTLS,       \* connection -> the TLS handshake has succeeded
    tErr,       \* connection -> the phase whose error ended the handler
    tAckFailed, \* connection -> writing the acknowledgement failed
    tCaptured,  \* connection -> captures emitted by its tunnel
    caMu,       \* the holder of ca.mu
    caCache,    \* ca.cache: hostname -> certificate
    caLog,      \* reads, writes and returns of CertForHost, in order
    tCaptures,  \* the events OnResponse was called with
    tServed,    \* number of requests read from tunnels so far
    tStarted,   \* number of CONNECT requests so far
    \* ---- engine file lock (SpecLock) ----
    lkPc,       \* worker -> position in Open, the use of the engine, Close
    lkErr,      \* worker -> the error it stopped on
    lkHolders,  \* the workers whose lock file description holds the flock
    lkFile,     \* worker -> its lock file is open
    lkDbOpen,   \* worker -> its database handle is open
    lkAcquired, \* worker -> times the current Open took the lock
    lkDb,       \* the writes in relay.db: <<worker, iteration>>
    lkIter,     \* worker -> iterations finished
    \* ---- ApplyPatch on one state (SpecApply) ----
    apSt,       \* the state ApplyPatch is called on
    apOps,      \* the ops it is called with
    apOut,      \* what it returned: [ok, st]
    apPhase,    \* "in" before the call, "out" after it
    caFiles,    \* ca: what ca.crt and ca.key hold on disk
    caNow,      \* ca: the clock
    caLoaded,   \* ca: the *CA the running proxy got from LoadOrCreateCA
    caResult,   \* ca: the outcome of the last CertForHost
    caStarts    \* ca: number of starts so far

storeVars   == <<rows, files, created, arts, events, pc, wThread, wOps, wCur,
                 wNext, wMeta, hist, calls>>
headerVars  == <<hIn, hOut, hPhase>>
compactVars == <<cSt, cPre, cMid, cErr, cPhase>>
cacheVars   == <<cache, now, nAdv, hop, runs, ipc, iReq, iRow, iRes, ilog, gen,
                 iArts>>
keyVars     == <<kA, kB, kOut, kPhase>>
artVars     == <<aRows, aFiles, aLog, aRead>>
previewVars == <<pContent, pType, pOut, pPhase>>
bundleVars  == <<bIn, bOut, bPrev, bPhase, bStore>>
eventVars   == <<eRows, eCounter, eClock, eTicks, ePc, eReq, eTmp, eEv, eLog,
                 eVersion, eOut, eCalls,
                 tlLast, tlSeen, tlShort>>
tailVars    == <<tlLast, tlSeen, tlShort>>
proxyVars   == <<xReq, xCaptures, xResp, xPhase>>
tunnelVars  == <<tPc, tConn, tHost, tTLS, tErr, tAckFailed, tCaptured, caMu,
                 caCache, caLog, tCaptures, tServed, tStarted>>
lockVars    == <<lkPc, lkErr, lkHolders, lkFile, lkDbOpen, lkAcquired, lkDb,
                 lkIter>>
applyVars   == <<apSt, apOps, apOut, apPhase>>
authVars    == <<caFiles, caNow, caLoaded, caResult, caStarts>>
extraVars   == <<keyVars, artVars, previewVars, bundleVars, eventVars,
                                proxyVars, tunnelVars, lockVars, applyVars,
                                authVars>>
vars        == <<storeVars, headerVars, compactVars, cacheVars, extraVars>>

(***************************************************************************)
(* Generic helpers                                                         *)
(***************************************************************************)
\* the last n elements of s (all of s when it is shorter)
LastN(s, n) == IF Len(s) > n THEN SubSeq(s, Len(s) - n + 1, Len(s)) ELSE s

\* the first n elements of s (all of s when it is shorter)
FirstN(s, n) == IF Len(s) > n THEN SubSeq(s, 1, n) ELSE s

RECURSIVE SeqSum(_)
SeqSum(s) == IF s = <<>> THEN 0 ELSE Head(s) + SeqSum(Tail(s))

\* all sequences over S of length at most n
SeqsUpTo(S, n) == UNION {[1..k -> S] : k \in 0..n}

(***************************************************************************)
(* internal/state/schema.go : State, JSON documents, the patch dialect     *)
(***************************************************************************)
\* ---- bounds of the state-store model ----
MaxCalls == 2       \* patch calls started in one behaviour

Workers   == {"w1", "w2"}        \* concurrent patch handlers
Threads   == {"T1", "T2"}        \* thread ids requests are made for
ThreadIds == Threads \cup {""}   \* thread ids a stored state can carry
StoreRefs == {"r2"}              \* refs uploaded to the artifact store

\* An element of a list field: a fact, an artifact ref or an action.  d is
\* its description / key / name, r its ref / result_ref ("" when absent).
Item(dd, rr) == [d |-> dd, r |-> rr]

\* State (schema.go:12-25), with the fields the patch dialect is exercised on.
MkState(v, t, fs, as, la) ==
    [version |-> v, thread_id |-> t, facts |-> fs, artifacts |-> as,
     last_actions |-> la]

\* "no state": what Get has when the thread has no row
NoState == MkState(0, "", <<>>, <<>>, <<>>)

NewState(threadID) == MkState(1, threadID, <<>>, <<>>, <<>>)

\* ---- JSON values (json.RawMessage) ----
JNull    == [k |-> "null", s |-> "", n |-> 0, a |-> <<>>, d |-> "", r |-> ""]
JAbsent  == [JNull EXCEPT !.k = "absent"]
JStr(x)  == [JNull EXCEPT !.k = "str", !.s = x]
JNum(x)  == [JNull EXCEPT !.k = "num", !.n = x]
JArr(xs) == [JNull EXCEPT !.k = "arr", !.a = xs]
JObj(dd, rr) == [JNull EXCEPT !.k = "obj", !.d = dd, !.r = rr]

DocFields == {"version", "thread_id", "facts", "artifacts", "last_actions"}
ListFields == {"facts", "artifacts", "last_actions"}

ItemsToJSON(xs) == JArr([i \in 1..Len(xs) |-> JObj(xs[i].d, xs[i].r)])

\* json.Marshal(s) followed by json.Unmarshal into map[string]json.RawMessage
\* (schema.go:223-231)
MarshalDoc(s) ==
    [f \in DocFields |->
        CASE f = "version"      -> JNum(s.version)
          [] f = "thread_id"    -> JStr(s.thread_id)
          [] f = "facts"        -> ItemsToJSON(s.facts)
          [] f = "artifacts"    -> ItemsToJSON(s.artifacts)
          [] f = "last_actions" -> ItemsToJSON(s.last_actions)]

\* encoding/json into a struct field: null and a missing key leave the zero
\* value, a value of another JSON kind is an error.
FieldOK(v, kind) == v.k \in {"absent", "null", kind}

ItemOK(v) == v.k \in {"null", "obj"}

ListOK(v) == FieldOK(v, "arr") /\ \A i \in 1..Len(v.a) : ItemOK(v.a[i])

ItemsFromJSON(v) ==
    IF v.k = "arr" THEN [i \in 1..Len(v.a) |-> Item(v.a[i].d, v.a[i].r)]
    ELSE <<>>

\* json.Unmarshal(result, &next) (schema.go:245-248)
UnmarshalOK(doc) ==
    /\ FieldOK(doc["version"], "num")
    /\ FieldOK(doc["thread_id"], "str")
    /\ \A f \in ListFields : ListOK(doc[f])

UnmarshalState(doc) ==
    MkState(IF doc["version"].k = "num" THEN doc["version"].n ELSE 0,
            IF doc["thread_id"].k = "str" THEN doc["thread_id"].s ELSE "",
            ItemsFromJSON(doc["facts"]),
            ItemsFromJSON(doc["artifacts"]),
            ItemsFromJSON(doc["last_actions"]))

\* ---- patch operations ----
\* A path is a sequence of tokens: "/" or a maximal run of other characters.
PatchOp(o, p, v) == [op |-> o, path |-> p, value |-> v]

ValidOps == {"add", "remove", "replace", "move", "copy", "test"}

\* ValidatePatch (schema.go:206-217): TRUE when it returns nil
ValidatePatch(ops) ==
    \A i \in 1..Len(ops) : ops[i].op \in ValidOps /\ ops[i].path # <<>>

\* splitPath (schema.go:298-314)
RECURSIVE SplitFrom(_, _, _)
SplitFrom(toks, cur, parts) ==
    IF toks = <<>> THEN Append(parts, cur)
    ELSE IF Head(toks) = "/"
         THEN SplitFrom(Tail(toks), "", Append(parts, cur))
         ELSE SplitFrom(Tail(toks), cur \o Head(toks), parts)

splitPath(path) == IF path = <<>> THEN <<>> ELSE SplitFrom(path, "", <<>>)

SetField(doc, field, v) ==
    IF field \in DocFields THEN [doc EXCEPT ![field] = v] ELSE doc

GetField(doc, field) == IF field \in DocFields THEN doc[field] ELSE JAbsent

\* the value put before the elements
PrependValue(arr, v) == <<v>> \o arr

\* arr = append(arr, op.Value) (schema.go:278)
AppendValue(arr, v) == Append(arr, v)

\* applyOp (schema.go:255-296): [ok, doc]
applyOp(doc, op) ==
    IF op.path = <<>> \/ Head(op.path) # "/" THEN [ok |-> FALSE, doc |-> doc]
    ELSE LET parts == splitPath(Tail(op.path)) IN
         IF Len(parts) = 0 THEN [ok |-> FALSE, doc |-> doc]
         ELSE LET field == parts[1] IN
              CASE op.op \in {"add", "replace"} ->
                     IF Len(parts) = 1
                     THEN [ok |-> TRUE, doc |-> SetField(doc, field, op.value)]
                     ELSE IF Len(parts) = 2 /\ parts[2] = "-"
                     THEN LET existing == GetField(doc, field)
                              arr == IF existing.k = "arr" THEN existing.a
                                     ELSE <<>>
                          IN [ok |-> TRUE,
                              doc |-> SetField(doc, field,
                                               JArr(AppendValue(arr, op.value)))]
                     ELSE [ok |-> FALSE, doc |-> doc]
                [] op.op = "remove" ->
                     IF Len(parts) = 1
                     THEN [ok |-> TRUE, doc |-> SetField(doc, field, JAbsent)]
                     ELSE [ok |-> FALSE, doc |-> doc]
                [] op.op = "test" -> [ok |-> TRUE, doc |-> doc]
                [] OTHER -> [ok |-> FALSE, doc |-> doc]

RECURSIVE ApplyOps(_, _)
ApplyOps(doc, ops) ==
    IF ops = <<>> THEN [ok |-> TRUE, doc |-> doc]
    ELSE LET r == applyOp(doc, Head(ops)) IN
         IF r.ok THEN ApplyOps(r.doc, Tail(ops)) ELSE r

\* ApplyPatch (schema.go:221-253): [ok, st]
ApplyPatch(s, ops) ==
    LET r == ApplyOps(MarshalDoc(s), ops) IN
    IF ~r.ok \/ ~UnmarshalOK(r.doc) THEN [ok |-> FALSE, st |-> NoState]
    ELSE [ok |-> TRUE,
          st |-> [UnmarshalState(r.doc) EXCEPT !.version = s.version + 1]]

(***************************************************************************)
(* The patch batches requests are made with                                *)
(***************************************************************************)
PField(f)  == <<"/", f>>
PAppend(f) == <<"/", f, "/", "-">>
PDeep(f)   == <<"/", f, "/", "0", "/", "value">>

OpsChoices == <<
    \* 1: append a fact
    <<PatchOp("add", PAppend("facts"), JObj("f1", ""))>>,
    \* 2: record an artifact and an action that refers to it
    <<PatchOp("add", PAppend("artifacts"), JObj("", "r1")),
      PatchOp("add", PAppend("last_actions"), JObj("act", "r1"))>>,
    \* 3: record an action whose result_ref is r2
    <<PatchOp("add", PAppend("last_actions"), JObj("act", "r2"))>>,
    \* 4: overwrite /version
    <<PatchOp("replace", PField("version"), JNum(7))>>,
    \* 5: overwrite /thread_id
    <<PatchOp("replace", PField("thread_id"), JStr("T2"))>>,
    \* 6: an op name that is not recognized
    <<PatchOp("merge", PField("facts"), JArr(<<>>))>>,
    \* 7: an empty path
    <<PatchOp("add", <<>>, JArr(<<>>))>>,
    \* 8: a path that does not begin with "/"
    <<PatchOp("add", <<"facts">>, JArr(<<>>))>>,
    \* 9: a deep indexed path
    <<PatchOp("replace", PDeep("facts"), JStr("x"))>>,
    \* 10: a batch whose second op fails after the first applied
    <<PatchOp("add", PAppend("facts"), JObj("f1", "")),
      PatchOp("copy", PField("facts"), JNull)>>,
    \* 11: remove a top-level field
    <<PatchOp("remove", PField("facts"), JNull)>>
>>

OpsIdx == 1..Len(OpsChoices)

(***************************************************************************)
(* internal/state/schema.go : Store                                        *)
(***************************************************************************)
ThreadRows(t) == {r \in rows : r.thread_id = t}

\* Store.Get (schema.go:353-370): the row with the highest version
Get(t) ==
    IF ThreadRows(t) = {} THEN NoState
    ELSE (CHOOSE r \in ThreadRows(t) :
             \A q \in ThreadRows(t) : q.version <= r.version).data

\* every action with a result ref names an artifact ref of the state or a
\* row of the artifact store
ClosedAt(st, store) ==
    \A i \in 1..Len(st.last_actions) :
        st.last_actions[i].r # "" =>
            \/ \E j \in 1..Len(st.artifacts) :
                   st.artifacts[j].r = st.last_actions[i].r
            \/ st.last_actions[i].r \in store

\* the INSERT OR REPLACE of Store.Put (schema.go:379-385); closed records
\* whether referential closure held when the row was committed
InsertOrReplace(table, st, store) ==
    {r \in table : ~(r.thread_id = st.thread_id /\ r.version = st.version)}
      \cup {[thread_id |-> st.thread_id, version |-> st.version, data |-> st,
             closed |-> ClosedAt(st, store)]}

\* overlap: another request that writes the states table was in flight
\* during the call
NoMeta == [id |-> 0, pre |-> NoState, overlap |-> FALSE, raced |-> {},
           wrote |-> FALSE]

\* what is recorded of a completed call: the version Get had for the thread
\* when the request arrived (preV) and has when the response leaves (postV),
\* and whether the latest state is the same at both moments
Call(id, t, i, res, ret, readV, pre, post, overlap, raced, wrote) ==
    [id |-> id, thread |-> t, ops |-> i, res |-> res, ret |-> ret,
     readV |-> readV, preV |-> pre.version, postV |-> post.version,
     same |-> (pre = post), overlap |-> overlap, raced |-> raced,
     wrote |-> wrote]

Event(t, ty, n, v) == [thread |-> t, type |-> ty, ops |-> n, version |-> v]

\* the handler returns: the call is recorded and the worker is free again
Finish(w, res, ret, tableAfter) ==
    LET latest == LET tr == {r \in tableAfter : r.thread_id = wThread[w]} IN
                  IF tr = {} THEN NoState
                  ELSE (CHOOSE r \in tr : \A q \in tr : q.version <= r.version).data
    IN
    /\ hist' = Append(hist, Call(wMeta[w].id, wThread[w], wOps[w], res, ret,
                                  wCur[w].version, wMeta[w].pre, latest,
                                  wMeta[w].overlap, wMeta[w].raced,
                                  wMeta[w].wrote))
    /\ pc' = [pc EXCEPT ![w] = "idle"]
    /\ wThread' = [wThread EXCEPT ![w] = ""]
    /\ wOps' = [wOps EXCEPT ![w] = 0]
    /\ wCur' = [wCur EXCEPT ![w] = NoState]
    /\ wNext' = [wNext EXCEPT ![w] = NoState]
    /\ wMeta' = [wMeta EXCEPT ![w] = NoMeta]

\* requests go to the first free handler
WorkerBefore(u, w) == u = "w1" /\ w = "w2"

\* createThread (part_001:177-211): threads row, Store.Create, event
CreateThread(t) ==
    /\ t \notin created
    /\ created' = created \cup {t}
    /\ rows' = InsertOrReplace(rows, NewState(t), arts)
    /\ files' = [files EXCEPT ![t] = NewState(t)]
    /\ events' = Append(events, Event(t, "thread.created", 0, 1))
    /\ wMeta' = [u \in Workers |->
                    IF pc[u] # "idle" THEN [wMeta[u] EXCEPT !.overlap = TRUE]
                    ELSE wMeta[u]]
    /\ UNCHANGED <<arts, pc, wThread, wOps, wCur, wNext, hist, calls>>

\* uploadArtifact (part_001:317-354) as far as the artifacts table goes: a
\* row with a ref that is not in the table yet
ArtifactPut(ref) ==
    /\ ref \notin arts
    /\ arts' = arts \cup {ref}
    /\ UNCHANGED <<rows, files, created, events, pc, wThread, wOps, wCur,
                   wNext, wMeta, hist, calls>>

\* patchState (part_001:292-299) into Store.Patch (schema.go:396-399): the
\* request arrives and ValidatePatch runs
PatchCall(w, t, i) ==
    /\ pc[w] = "idle"
    /\ \A u \in Workers : pc[u] = "idle" => ~WorkerBefore(u, w)
    /\ calls < MaxCalls
    /\ calls' = calls + 1
    /\ LET others == {u \in Workers : u # w /\ pc[u] # "idle"}
           meta == [NoMeta EXCEPT !.id = calls + 1, !.pre = Get(t),
                                  !.overlap = (others # {})]
       IN
       IF ValidatePatch(OpsChoices[i])
       THEN /\ pc' = [pc EXCEPT ![w] = "get"]
            /\ wThread' = [wThread EXCEPT ![w] = t]
            /\ wOps' = [wOps EXCEPT ![w] = i]
            /\ wMeta' = [u \in Workers |->
                            IF u = w THEN meta
                            ELSE IF u \in others
                                 THEN [wMeta[u] EXCEPT !.overlap = TRUE]
                                 ELSE wMeta[u]]
            /\ UNCHANGED <<hist, wCur, wNext>>
       ELSE /\ hist' = Append(hist, Call(calls + 1, t, i, "err", NoState, 0,
                                          Get(t), Get(t), others # {}, {},
                                          FALSE))
            /\ wMeta' = [u \in Workers |->
                            IF u \in others
                            THEN [wMeta[u] EXCEPT !.overlap = TRUE]
                            ELSE wMeta[u]]
            /\ UNCHANGED <<pc, wThread, wOps, wCur, wNext>>
    /\ UNCHANGED <<rows, files, created, arts, events>>

\* Store.Patch (schema.go:401-409): Get, then ApplyPatch on what it returned
PatchGet(w) ==
    /\ pc[w] = "get"
    /\ LET current == Get(wThread[w])
           r == ApplyPatch(current, OpsChoices[wOps[w]])
       IN
       IF current = NoState \/ ~r.ok
       THEN Finish(w, "err", NoState, rows)
       ELSE /\ pc' = [pc EXCEPT ![w] = "put"]
            /\ wCur' = [wCur EXCEPT ![w] = current]
            /\ wNext' = [wNext EXCEPT ![w] = r.st]
            /\ UNCHANGED <<wThread, wOps, wMeta, hist>>
    /\ UNCHANGED <<rows, files, created, arts, events, calls>>

\* Store.Put (schema.go:374-385): the INSERT OR REPLACE, which the database
\* may refuse
PatchPut(w) ==
    /\ pc[w] = "put"
    /\ \/ /\ rows' = InsertOrReplace(rows, wNext[w], arts)
          /\ pc' = [pc EXCEPT ![w] = "file"]
          /\ wMeta' = [u \in Workers |->
                          IF u = w THEN [wMeta[w] EXCEPT !.wrote = TRUE]
                          ELSE IF /\ pc[u] = "put"
                                  /\ wThread[u] = wThread[w]
                                  /\ wCur[u].version = wCur[w].version
                               THEN [wMeta[u] EXCEPT
                                        !.raced = @ \cup {wMeta[w].id}]
                               ELSE wMeta[u]]
          /\ UNCHANGED <<wThread, wOps, wCur, wNext, hist>>
       \/ /\ Finish(w, "err", NoState, rows)
          /\ UNCHANGED rows
    /\ UNCHANGED <<files, created, arts, events, calls>>

\* Store.Put (schema.go:387-392): writeFile mirrors the state, or fails
PatchWriteFile(w) ==
    /\ pc[w] = "file"
    /\ \/ /\ files' = [files EXCEPT ![wNext[w].thread_id] = wNext[w]]
          /\ pc' = [pc EXCEPT ![w] = "event"]
          /\ UNCHANGED <<wThread, wOps, wCur, wNext, wMeta, hist>>
       \/ /\ Finish(w, "err", NoState, rows)
          /\ UNCHANGED files
    /\ UNCHANGED <<rows, created, arts, events, calls>>

\* patchState (part_001:305-314): the state.patch.applied event, then the
\* response
PatchEvent(w) ==
    /\ pc[w] = "event"
    /\ events' = Append(events,
                        Event(wThread[w], "state.patch.applied",
                              Len(OpsChoices[wOps[w]]), wNext[w].version))
    /\ Finish(w, "ok", wNext[w], rows)
    /\ UNCHANGED <<rows, files, created, arts, calls>>

StoreInit ==
    /\ rows = {}
    /\ files = [t \in ThreadIds |-> NoState]
    /\ created = {}
    /\ arts = {}
    /\ events = <<>>
    /\ pc = [w \in Workers |-> "idle"]
    /\ wThread = [w \in Workers |-> ""]
    /\ wOps = [w \in Workers |-> 0]
    /\ wCur = [w \in Workers |-> NoState]
    /\ wNext = [w \in Workers |-> NoState]
    /\ wMeta = [w \in Workers |-> NoMeta]
    /\ hist = <<>>
    /\ calls = 0

(***************************************************************************)
(* Properties of the state store                                           *)
(***************************************************************************)
Quiet == \A w \in Workers : pc[w] = "idle"

OkCalls(t) == {i \in 1..Len(hist) : hist[i].thread = t /\ hist[i].res = "ok"}

\* every call so far succeeded and ran with no other call in flight
OnlySequentialSuccesses ==
    /\ Quiet
    /\ \A i \in 1..Len(hist) : hist[i].res = "ok" /\ ~hist[i].overlap

\* C1: after create and n successful patch calls made one after another, the
\* latest state of the thread has version 1 + n, and each of the calls
\* returned and left behind the version before it plus one.
C1_VersionIsOnePlusPatches ==
    OnlySequentialSuccesses =>
        /\ \A t \in created : Get(t).version = 1 + Cardinality(OkCalls(t))
        /\ \A i \in 1..Len(hist) :
               /\ hist[i].ret.version = hist[i].preV + 1
               /\ hist[i].postV = hist[i].preV + 1

\* C2: two patch calls on one thread that both read version V before either
\* wrote never both report success.
C2_ConcurrentWritersDetected ==
    \A i, j \in 1..Len(hist) :
        ~ /\ i # j
          /\ hist[i].thread = hist[j].thread
          /\ hist[i].readV = hist[j].readV
          /\ hist[i].id \in hist[j].raced
          /\ hist[i].res = "ok"
          /\ hist[j].res = "ok"

\* C3: every persisted state version satisfied referential closure when it
\* was committed: each action with a result ref named an artifact ref of
\* that state or a row of the artifact store.
C3_PersistedVersionsClosed == \A r \in rows : r.closed

\* C4: a patch call that returns an error has persisted nothing: it wrote no
\* row, and a get after it returns the version and content from before it.
C4_FailedPatchPersistsNothing ==
    \A i \in 1..Len(hist) :
        (hist[i].res = "err" /\ ~hist[i].overlap) =>
            (~hist[i].wrote /\ hist[i].same)

(***************************************************************************)
(* internal/state/schema.go : State.Header                                 *)
(*                                                                         *)
(* A list element is [id, size, status]: its position in the state's list, *)
(* the length in bytes of its JSON encoding, and its status.               *)
(***************************************************************************)
MaxHeaderFacts       == 10
MaxHeaderConstraints == 5
MaxHeaderQuestions   == 5
MaxHeaderPlanSteps   == 5
MaxHeaderArtifacts   == 10
MaxHeaderActions     == 5
MaxHeaderBytes       == 2048

\* element sizes the inputs are built from: an element with short strings,
\* and one with a description of a few hundred characters
ItemSizes == {48, 480}

HItem(i, sz, st) == [id |-> i, size |-> sz, status |-> st]

\* n elements of one size; every element active, or every second one
HList(n, sz, pattern, active, inactive) ==
    [i \in 1..n |->
        HItem(i, sz, IF pattern = "all" \/ i % 2 = 1 THEN active ELSE inactive)]

\* version and metrics are 1 and the zero counters unless set otherwise
HState(fs, cs, qs, ps, as, la) ==
    [facts |-> fs, constraints |-> cs, open_questions |-> qs, plan |-> ps,
     artifacts |-> as, last_actions |-> la, version |-> 1, metrics |-> 0]

MkHeader(fs, cs, qs, ps, as, la, tr) ==
    [top_facts |-> fs, top_constraints |-> cs, open_questions |-> qs,
     next_steps |-> ps, artifact_refs |-> as, last_actions |-> la,
     truncated |-> tr, version |-> 1, metrics |-> 0]

NoHState == HState(<<>>, <<>>, <<>>, <<>>, <<>>, <<>>)
NoHeader == MkHeader(<<>>, <<>>, <<>>, <<>>, <<>>, <<>>, FALSE)

\* Bytes of the Header struct's JSON (schema.go:82-94) outside the six list
\* values and the truncated member:
\* {"$schema":"com.relay.state.v1","thread_id":<36 characters>,"version":1,
\*  "top_facts":,...,"last_actions":,"metrics":{<five zero counters>}}
HeaderSkeletonBytes == 289

\* encoding/json of a slice: null for a nil slice, else [e1,e2,...]
ListBytes(xs, isNil) ==
    IF Len(xs) = 0 THEN (IF isNil THEN 4 ELSE 2)
    ELSE 2 + SeqSum([i \in 1..Len(xs) |-> xs[i].size]) + (Len(xs) - 1)

\* len(json.Marshal(h)) (schema.go:186); open_questions and next_steps are
\* built by append and stay nil when nothing was appended
HeaderBytes(h) ==
    HeaderSkeletonBytes
      + ListBytes(h.top_facts, FALSE)
      + ListBytes(h.top_constraints, FALSE)
      + ListBytes(h.open_questions, TRUE)
      + ListBytes(h.next_steps, TRUE)
      + ListBytes(h.artifact_refs, FALSE)
      + ListBytes(h.last_actions, FALSE)
      + (IF h.truncated THEN 17 ELSE 0)

\* a loop that takes the first n elements whatever their status
RECURSIVE TakeAny(_, _, _)
TakeAny(xs, ok, n) ==
    IF xs = <<>> \/ n = 0 THEN <<>>
    ELSE <<Head(xs)>> \o TakeAny(Tail(xs), ok, n - 1)

\* the loops of schema.go:153-170: the first n elements whose status is in ok
RECURSIVE TakeWithStatus(_, _, _)
TakeWithStatus(xs, ok, n) ==
    IF xs = <<>> \/ n = 0 THEN <<>>
    ELSE IF Head(xs).status \in ok
         THEN <<Head(xs)>> \o TakeWithStatus(Tail(xs), ok, n - 1)
         ELSE TakeWithStatus(Tail(xs), ok, n)

\* a byte-cap loop that evicts nothing
DropNothing(h) == h

\* a byte-cap loop that evicts every fact at once
DropAllFacts(h) ==
    IF Len(h.top_facts) = 0 \/ HeaderBytes(h) <= MaxHeaderBytes THEN h
    ELSE [h EXCEPT !.top_facts = <<>>, !.truncated = TRUE]

\* the byte-cap loop (schema.go:184-192)
RECURSIVE DropUntilFits(_)
DropUntilFits(h) ==
    IF Len(h.top_facts) = 0 \/ HeaderBytes(h) <= MaxHeaderBytes THEN h
    ELSE DropUntilFits([h EXCEPT !.top_facts = Tail(@), !.truncated = TRUE])

\* State.Header (schema.go:128-182): the header before the byte cap
HeaderBeforeCap(st) ==
    [MkHeader(LastN(st.facts, MaxHeaderFacts),
              FirstN(st.constraints, MaxHeaderConstraints),
              TakeWithStatus(st.open_questions, {"open", ""},
                             MaxHeaderQuestions),
              TakeWithStatus(st.plan, {"pending", ""}, MaxHeaderPlanSteps),
              LastN(st.artifacts, MaxHeaderArtifacts),
              LastN(st.last_actions, MaxHeaderActions),
              FALSE)
     EXCEPT !.version = st.version, !.metrics = st.metrics]

\* State.Header (schema.go:128-195)
Header(st) == DropUntilFits(HeaderBeforeCap(st))

\* the states Header is called on
SizedLists(ns) ==
    {<<>>} \cup {HList(n, sz, "all", "", "") : n \in ns, sz \in ItemSizes}

StatusLists(ns, active, inactive) ==
    {<<>>} \cup {HList(n, sz, pat, active, inactive) :
                    n \in ns, sz \in ItemSizes, pat \in {"all", "alt"}}

\* version and metrics of the states: those of a new thread, or others
Counters == {<<1, 0>>, <<7, 3>>}

HeaderInputs ==
    {[HState(fs, cs, qs, ps, as, la) EXCEPT !.version = vm[1],
                                            !.metrics = vm[2]] :
        vm \in Counters,
        fs \in SizedLists({1, MaxHeaderFacts, MaxHeaderFacts + 1}),
        cs \in SizedLists({MaxHeaderConstraints, MaxHeaderConstraints + 1}),
        qs \in StatusLists({MaxHeaderQuestions + 1,
                            2 * MaxHeaderQuestions + 1}, "open", "resolved"),
        ps \in StatusLists({MaxHeaderPlanSteps + 1}, "pending", "done"),
        as \in SizedLists({MaxHeaderArtifacts, MaxHeaderArtifacts + 1}),
        la \in SizedLists({MaxHeaderActions, MaxHeaderActions + 1})}

HeaderIdle == hIn = NoHState /\ hOut = NoHeader /\ hPhase = "off"

HeaderInit == hIn \in HeaderInputs /\ hOut = NoHeader /\ hPhase = "in"

HeaderCall ==
    /\ hPhase = "in"
    /\ hOut' = Header(hIn)
    /\ hPhase' = "out"
    /\ UNCHANGED hIn

MaxActionsKeep   == 50
MaxArtifactsKeep == 200

Action(desc, ref) == [d |-> desc, r |-> ref]
ArtifactRef(ref, nm) == [ref |-> ref, name |-> nm]

\* the part of a State that Compact reads and writes; summary is <<>> while
\* SessionSummary is empty, else the four numbers of its text
CState(la, as, sum) == [last_actions |-> la, artifacts |-> as, summary |-> sum]

NoCState == CState(<<>>, <<>>, <<>>)

\* strings.TrimSpace
RECURSIVE TrimLeft(_)
TrimLeft(d) == IF d # <<>> /\ Head(d) = " " THEN TrimLeft(Tail(d)) ELSE d

RECURSIVE TrimRight(_)
TrimRight(d) ==
    IF d # <<>> /\ d[Len(d)] = " " THEN TrimRight(SubSeq(d, 1, Len(d) - 1))
    ELSE d

TrimSpace(d) == TrimRight(TrimLeft(d))

\* flush (part_000:59-66): the action a run of n equal actions becomes
Flush(a, n) ==
    IF n <= 1 THEN a
    ELSE [a EXCEPT !.d = TrimSpace(a.d) \o <<" ", "(x" \o ToString(n) \o ")">>]

\* the loop of collapseActions (part_000:68-74) compares each action with
\* cur, the first action of the run in progress
SameAction(a, b) == a.d = b.d /\ a.r = b.r

\* the indices at which the loop flushes cur and starts a new run: an action
\* that differs from cur differs from the action before it, all actions of
\* the run being equal to cur
RunStarts(actions) ==
    {i \in 1..Len(actions) :
        i = 1 \/ ~SameAction(actions[i], actions[i - 1])}

\* count when the run that starts at index i is flushed
RunLength(actions, i) ==
    LET later == {k \in RunStarts(actions) : k > i}
    IN IF later = {} THEN Len(actions) - i + 1
       ELSE (CHOOSE k \in later : \A m \in later : k <= m) - i

\* collapseActions (part_000:51-80): one flushed action per run, in order
collapseActions(actions) ==
    IF Len(actions) = 0 THEN actions
    ELSE LET starts == RunStarts(actions)
             kth(k) == CHOOSE i \in starts :
                           Cardinality({x \in starts : x <= i}) = k
         IN [k \in 1..Cardinality(starts) |->
                Flush(actions[kth(k)], RunLength(actions, kth(k)))]

\* referencedArtifacts (part_000:107-115)
referencedArtifacts(actions) ==
    {actions[i].r : i \in {k \in 1..Len(actions) : actions[k].r # 0}}

\* the refs in S in increasing order
RECURSIVE SortRefs(_)
SortRefs(S) ==
    IF S = {} THEN <<>>
    ELSE LET m == CHOOSE x \in S : \A y \in S : x <= y
         IN <<m>> \o SortRefs(S \ {m})

\* a compactArtifacts that keeps every entry
KeepAll(artifacts, keepRefs) == artifacts

\* compactArtifacts (part_000:117-161)
compactArtifacts(artifacts, keepRefs) ==
    IF Len(artifacts) = 0 THEN artifacts
    ELSE LET base == LastN(artifacts, MaxArtifactsKeep)
             seen == {base[i].ref : i \in 1..Len(base)}
             \* the refs to add: kept by an action, not in base, in the list
             add  == {artifacts[i].ref : i \in 1..Len(artifacts)}
                        \cap (keepRefs \ seen)
             \* each one is added as its first entry in the list
             first(ref) == artifacts[CHOOSE i \in 1..Len(artifacts) :
                               /\ artifacts[i].ref = ref
                               /\ \A k \in 1..(i - 1) : artifacts[k].ref # ref]
             sorted == SortRefs(add)
             missing == [i \in 1..Len(sorted) |-> first(sorted[i])]
         IN base \o missing

\* a closure check that accepts everything
NoClosureCheck(actions, artifacts) == "nil"

\* ensureReferentialClosure (part_000:163-180): "nil" or "integrity"
ensureReferentialClosure(actions, artifacts) ==
    IF Len(actions) = 0 THEN "nil"
    ELSE LET artSet == {artifacts[i].ref : i \in 1..Len(artifacts)}
         IN IF \E i \in 1..Len(actions) :
                   actions[i].r # 0 /\ actions[i].r \notin artSet
            THEN "integrity"
            ELSE "nil"

\* Compact (part_000:20-49): the state it leaves behind and what it returns
Compact(st) ==
    LET originalActions   == Len(st.last_actions)
        originalArtifacts == Len(st.artifacts)
        la == IF Len(st.last_actions) > 0
              THEN LastN(collapseActions(st.last_actions), MaxActionsKeep)
              ELSE st.last_actions
        refSet == referencedArtifacts(la)
        as == IF Len(st.artifacts) > MaxArtifactsKeep \/ refSet # {}
              THEN compactArtifacts(st.artifacts, refSet)
              ELSE st.artifacts
        sum == IF Len(la) # originalActions \/ Len(as) # originalArtifacts
               THEN <<originalActions, Len(la), originalArtifacts, Len(as)>>
               ELSE st.summary
    IN [st |-> CState(la, as, sum), err |-> ensureReferentialClosure(la, as)]

\* ---- the states Compact is called on ----
Descriptions == {<<"A">>, <<"A", " ">>, <<"A", " ", "(x2)">>}
ActionRefs == {0, 1, 9}
ShortActions == SeqsUpTo({Action(d, r) : d \in Descriptions, r \in ActionRefs}, 3)

\* n actions with distinct descriptions, the first one carrying ref
LongActions(n, ref) ==
    [i \in 1..n |-> Action(<<"B" \o ToString(i)>>, IF i = 1 THEN ref ELSE 0)]

ActionInputs ==
    ShortActions \cup {LongActions(n, ref) :
                          n \in {MaxActionsKeep, MaxActionsKeep + 1},
                          ref \in {0, 1}}

\* artifact refs lo..hi in list order
ArtRange(lo, hi) == [i \in 1..(hi - lo + 1) |-> ArtifactRef(lo + i - 1, "")]

ArtifactInputs ==
    {<<>>, ArtRange(1, 1), ArtRange(1, 2), ArtRange(2, 3),
     <<ArtifactRef(1, "x"), ArtifactRef(2, ""), ArtifactRef(1, "y")>>}
      \cup {ArtRange(1, n) : n \in {MaxArtifactsKeep, MaxArtifactsKeep + 1,
                                    MaxArtifactsKeep + 2,
                                    MaxArtifactsKeep + MaxActionsKeep}}

CompactInputs ==
    {CState(la, as, <<>>) : la \in ActionInputs, as \in ArtifactInputs}

CompactIdle ==
    /\ cSt = NoCState /\ cPre = NoCState /\ cMid = NoCState
    /\ cErr = <<>> /\ cPhase = "off"

CompactInit ==
    /\ cSt \in CompactInputs
    /\ cPre = cSt
    /\ cMid = NoCState
    /\ cErr = <<>>
    /\ cPhase = "in"

\* the first call of Compact on the state
CompactFirst ==
    /\ cPhase = "in"
    /\ LET c == Compact(cSt) IN
       /\ cSt' = c.st
       /\ cMid' = c.st
       /\ cErr' = <<c.err>>
    /\ cPhase' = "once"
    /\ UNCHANGED cPre

\* a second call with no mutation in between
CompactSecond ==
    /\ cPhase = "once"
    /\ LET c == Compact(cSt) IN
       /\ cSt' = c.st
       /\ cErr' = Append(cErr, c.err)
    /\ cPhase' = "twice"
    /\ UNCHANGED <<cPre, cMid>>

(***************************************************************************)
(* internal/cache/cache.go : Key, Get, Set, Invalidate                     *)
(*                                                                         *)
(* Time is counted in ticks, TicksPerSec of them to the second.            *)
(***************************************************************************)
TicksPerSec    == 3      \* clock resolution below the second
MaxCacheCalls  == 3      \* calls started in one behaviour
MaxInvocations == 2      \* capability invocations among them
MaxAdvances    == 1      \* clock advances in one behaviour

DefaultTTL       == 86400    \* 24 * time.Hour, in seconds
DefaultMaxHops   == 50
RetrievalTTLSec  == 300      \* CacheTTLSec of retrieval.search

DefaultTenant == "local"

CacheWorkers == {"g1", "g2"}    \* goroutines calling into the cache
InvokeThreads == {"T1"}
ArgsPool == {"q1", "q2", ""}    \* the query of a retrieval.search request

InvokeRequest(ten, cap, args, th) ==
    [tenant |-> ten, capability |-> cap, args |-> args, thread_id |-> th]

Requests ==
    {InvokeRequest(DefaultTenant, "retrieval.search", a, th) :
        a \in ArgsPool, th \in InvokeThreads}

\* Key (cache.go:56-65): the string that is hashed; the digest is taken to be
\* one-to-one on these strings
Key(tenant, capability, argsJSON, scope, version) ==
    tenant \o "|" \o capability \o "|" \o argsJSON \o "|" \o scope \o "|"
      \o version

KeyOf(req) ==
    Key(req.tenant, req.capability, req.args, req.thread_id, "v1")

CacheKeys == {KeyOf(r) : r \in {q \in Requests : q.args # ""}}

\* a row of the cache table; set is the number of the Set call that wrote it
Row(pv, ref, exp, hits, n) ==
    [preview |-> pv, artifact_ref |-> ref, expires_at |-> exp,
     hit_count |-> hits, set |-> n]

NoRow == Row(0, 0, 0 - 1, 0, 0)

\* time.Format(time.RFC3339) followed by time.Parse: whole seconds
RFC3339(t) == t - (t % TicksPerSec)

\* an expiry test that never fires
NeverAfter(t, expiresAt) == FALSE

\* an expiry test that always fires
AlwaysAfter(t, expiresAt) == TRUE

\* an expiry test that also fires at the expiry time itself
AfterOrAt(t, expiresAt) == t >= expiresAt

\* time.Now().After(e.ExpiresAt) (cache.go:89)
After(t, expiresAt) == t > expiresAt

\* the row Set writes (cache.go:105-118)
SetRow(pv, ref, ttlSec, n) ==
    LET ttl == IF ttlSec <= 0 THEN DefaultTTL ELSE ttlSec
    IN Row(pv, ref, RFC3339(now + ttl * TicksPerSec), 0, n)

\* a completed call; sets is the number of Set calls made for the key and
\* after the number of calls that had returned, both when the call started
CacheCall(op, key, hit, row, overlap) ==
    [op |-> op, key |-> key, hit |-> hit, at |-> now,
     preview |-> row.preview, artifact_ref |-> row.artifact_ref,
     expires_at |-> row.expires_at, hit_count |-> row.hit_count,
     set |-> row.set, sets |-> gen[key], overlap |-> overlap,
     after |-> Len(ilog)]

NoReq == [op |-> "", key |-> "", req |-> InvokeRequest("", "", "", ""),
          overlap |-> FALSE, at |-> 0, sets |-> 0, after |-> 0, hop |-> 0,
          setAt |-> 0]

InFlight == {w \in CacheWorkers : ipc[w] # "idle"}

\* calls go to the first idle goroutine
FirstIdle(w) ==
    /\ ipc[w] = "idle"
    /\ (w = "g2" => ipc["g1"] # "idle")

\* a call starts: it overlaps whatever is in flight
Begin(w, op, key, req, nextPc) ==
    /\ ipc' = [ipc EXCEPT ![w] = nextPc]
    /\ iReq' = [u \in CacheWorkers |->
                  IF u = w
                  THEN [op |-> op, key |-> key, req |-> req,
                        overlap |-> (InFlight # {}), at |-> now,
                        sets |-> gen[key], after |-> Len(ilog), hop |-> 0,
                        setAt |-> 0]
                  ELSE IF u \in InFlight
                       THEN [iReq[u] EXCEPT !.overlap = TRUE]
                       ELSE iReq[u]]

\* a call returns
End(w, rec) ==
    /\ ilog' = Append(ilog, rec)
    /\ ipc' = [ipc EXCEPT ![w] = "idle"]
    /\ iReq' = [iReq EXCEPT ![w] = NoReq]
    /\ iRow' = [iRow EXCEPT ![w] = NoRow]

CallsStarted == Len(ilog) + Cardinality(InFlight)

InvocationsStarted ==
    Cardinality({i \in 1..Len(ilog) : ilog[i].op = "invoke"})
      + Cardinality({w \in InFlight : iReq[w].op = "invoke"})


\* Cache.Get (cache.go:68-92): the SELECT and the expiry test
CacheGetSelect(w, key) ==
    /\ FirstIdle(w)
    /\ CallsStarted < MaxCacheCalls
    /\ IF cache[key] = NoRow
       THEN /\ ilog' = Append(ilog, [CacheCall("get", key, FALSE, NoRow,
                                               InFlight # {})
                                        EXCEPT !.sets = gen[key]])
            /\ iReq' = [u \in CacheWorkers |->
                          IF u \in InFlight
                          THEN [iReq[u] EXCEPT !.overlap = TRUE]
                          ELSE iReq[u]]
            /\ UNCHANGED <<ipc, iRow>>
       ELSE /\ Begin(w, "get", key, NoReq.req,
                     IF After(now, cache[key].expires_at) THEN "delete"
                     ELSE "update")
            /\ iRow' = [iRow EXCEPT ![w] = cache[key]]
            /\ UNCHANGED ilog
    /\ UNCHANGED <<cache, now, nAdv, hop, runs, iArts, iRes, gen>>

\* Cache.Get (cache.go:89-93): the lazy DELETE of an expired row
CacheGetDelete(w) ==
    /\ ipc[w] = "delete"
    /\ iReq[w].op = "get"
    /\ cache' = [cache EXCEPT ![iReq[w].key] = NoRow]
    /\ End(w, [CacheCall("get", iReq[w].key, FALSE, iRow[w], iReq[w].overlap)
                  EXCEPT !.at = iReq[w].at, !.sets = iReq[w].sets,
                         !.after = iReq[w].after])
    /\ UNCHANGED <<now, nAdv, hop, runs, iArts, iRes, gen>>

\* Cache.Get (cache.go:95-101): the UPDATE of hit_count, and the entry
\* returned with its own count plus one
CacheGetUpdate(w) ==
    /\ ipc[w] = "update"
    /\ iReq[w].op = "get"
    /\ cache' = [cache EXCEPT ![iReq[w].key] =
                    IF @ = NoRow THEN @ ELSE [@ EXCEPT !.hit_count = @ + 1]]
    /\ End(w, [CacheCall("get", iReq[w].key, TRUE,
                         [iRow[w] EXCEPT !.hit_count = @ + 1], iReq[w].overlap)
                  EXCEPT !.at = iReq[w].at, !.sets = iReq[w].sets,
                         !.after = iReq[w].after])
    /\ UNCHANGED <<now, nAdv, hop, runs, iArts, iRes, gen>>

\* Cache.Set (cache.go:105-118), called with a fresh preview and ref
CacheSet(w, key, ttlSec) ==
    /\ FirstIdle(w)
    /\ CallsStarted < MaxCacheCalls
    /\ runs' = runs + 1
    /\ UNCHANGED iArts
    /\ gen' = [gen EXCEPT ![key] = @ + 1]
    /\ cache' = [cache EXCEPT ![key] =
                    SetRow(runs + 1, runs + 1, ttlSec, gen[key] + 1)]
    /\ ilog' = Append(ilog, [CacheCall("set", key, FALSE,
                                       SetRow(runs + 1, runs + 1, ttlSec,
                                              gen[key] + 1),
                                       InFlight # {})
                                EXCEPT !.sets = gen[key] + 1])
    /\ iReq' = [u \in CacheWorkers |->
                  IF u \in InFlight THEN [iReq[u] EXCEPT !.overlap = TRUE]
                  ELSE iReq[u]]
    /\ UNCHANGED <<now, nAdv, hop, ipc, iRow, iRes>>

\* Cache.Invalidate (cache.go:121-124)
Invalidate(w, key) ==
    /\ FirstIdle(w)
    /\ CallsStarted < MaxCacheCalls
    /\ cache' = [cache EXCEPT ![key] = NoRow]
    /\ ilog' = Append(ilog, CacheCall("invalidate", key, FALSE, NoRow,
                                      InFlight # {}))
    /\ iReq' = [u \in CacheWorkers |->
                  IF u \in InFlight THEN [iReq[u] EXCEPT !.overlap = TRUE]
                  ELSE iReq[u]]
    /\ UNCHANGED <<now, nAdv, hop, runs, iArts, ipc, iRow, iRes, gen>>

\* the wall clock moves on: by a tick, to just before and to after the time
\* to live of a retrieval.search entry
Jumps == {1, RetrievalTTLSec * TicksPerSec - 1,
          (RetrievalTTLSec + 1) * TicksPerSec}

Tick(d) ==
    /\ nAdv < MaxAdvances
    /\ nAdv' = nAdv + 1
    /\ now' = now + d
    /\ UNCHANGED <<cache, hop, runs, iArts, ipc, iReq, iRow, iRes, ilog, gen>>

CacheIdle ==
    /\ cache = [k \in CacheKeys |-> NoRow]
    /\ now = 0
    /\ nAdv = 0
    /\ hop = [t \in InvokeThreads |-> 0]
    /\ runs = 0
    /\ iArts = {}
    /\ ipc = [w \in CacheWorkers |-> "idle"]
    /\ iReq = [w \in CacheWorkers |-> NoReq]
    /\ iRow = [w \in CacheWorkers |-> NoRow]
    /\ iRes = [w \in CacheWorkers |-> NoRow]
    /\ ilog = <<>>
    /\ gen = [k \in CacheKeys |-> 0]

\* the daemon starts at any instant within a second
CacheInit ==
    /\ cache = [k \in CacheKeys |-> NoRow]
    /\ now \in 0..(TicksPerSec - 1)
    /\ nAdv = 0
    /\ hop = [t \in InvokeThreads |-> 0]
    /\ runs = 0
    /\ iArts = {}
    /\ ipc = [w \in CacheWorkers |-> "idle"]
    /\ iReq = [w \in CacheWorkers |-> NoReq]
    /\ iRow = [w \in CacheWorkers |-> NoRow]
    /\ iRes = [w \in CacheWorkers |-> NoRow]
    /\ ilog = <<>>
    /\ gen = [k \in CacheKeys |-> 0]

CacheOnly == UNCHANGED <<storeVars, headerVars, compactVars, extraVars>>

\* the times to live Set is called with, in seconds; 0 asks for the default
SetTTLs == {0, 1, RetrievalTTLSec}

NextCache ==
    \/ \E w \in CacheWorkers, k \in CacheKeys :
          CacheGetSelect(w, k) /\ CacheOnly
    \/ \E w \in CacheWorkers : CacheGetDelete(w) /\ CacheOnly
    \/ \E w \in CacheWorkers : CacheGetUpdate(w) /\ CacheOnly
    \/ \E w \in CacheWorkers, k \in CacheKeys, ttl \in SetTTLs :
          CacheSet(w, k, ttl) /\ CacheOnly
    \/ \E w \in CacheWorkers, k \in CacheKeys : Invalidate(w, k) /\ CacheOnly
    \/ \E d \in Jumps : Tick(d) /\ CacheOnly

(***************************************************************************)
(* package daemon : handleCapInvoke, package policy : CheckHopLimit,       *)
(* internal/plugins/registry.go : retrieval.search                         *)
(***************************************************************************)
\* CheckHopLimit (part_001:1157-1163): TRUE when it returns nil
CheckHopLimit(hopCount, maxHops) == ~(hopCount >= maxHops)

\* the capability.invoked event of a response
CapEvent(t, hit, ref) ==
    [thread |-> t, type |-> "capability.invoked", cache_hit |-> hit,
     artifact_ref |-> ref]

\* a completed invocation: res is the status of the response, run the number
\* of the handler execution it made (0 when it made none), hopBefore the hop
\* count it read, setAt the time of its Cache.Set
Invocation(w, res, hit, row, run) ==
    [op |-> "invoke", key |-> iReq[w].key, hit |-> hit, at |-> iReq[w].at,
     preview |-> row.preview, artifact_ref |-> row.artifact_ref,
     expires_at |-> row.expires_at, hit_count |-> row.hit_count,
     set |-> row.set, sets |-> iReq[w].sets, overlap |-> iReq[w].overlap,
     after |-> iReq[w].after, res |-> res, run |-> run,
     hopBefore |-> iReq[w].hop, setAt |-> iReq[w].setAt,
     args |-> iReq[w].req.args]

\* handleCapInvoke (part_001:448-478): the request is decoded, hop_count is
\* read and checked
InvokeStart(w, req) ==
    /\ FirstIdle(w)
    /\ CallsStarted < MaxCacheCalls
    /\ InvocationsStarted < MaxInvocations
    /\ IF CheckHopLimit(hop[req.thread_id], DefaultMaxHops)
       THEN /\ ipc' = [ipc EXCEPT ![w] = "select"]
            /\ iReq' = [u \in CacheWorkers |->
                          IF u = w
                          THEN [op |-> "invoke", key |-> KeyOf(req), req |-> req,
                                overlap |-> (InFlight # {}), at |-> now,
                                sets |-> 0, after |-> Len(ilog),
                                hop |-> hop[req.thread_id], setAt |-> 0]
                          ELSE IF u \in InFlight
                               THEN [iReq[u] EXCEPT !.overlap = TRUE]
                               ELSE iReq[u]]
            /\ UNCHANGED ilog
       ELSE /\ ilog' = Append(ilog,
                   [op |-> "invoke", key |-> KeyOf(req), hit |-> FALSE,
                    at |-> now, preview |-> 0, artifact_ref |-> 0,
                    expires_at |-> 0 - 1, hit_count |-> 0, set |-> 0,
                    sets |-> 0, overlap |-> (InFlight # {}),
                    after |-> Len(ilog), res |-> "429", run |-> 0,
                    hopBefore |-> hop[req.thread_id], setAt |-> 0,
                    args |-> req.args])
            /\ iReq' = [u \in CacheWorkers |->
                          IF u \in InFlight
                          THEN [iReq[u] EXCEPT !.overlap = TRUE]
                          ELSE iReq[u]]
            /\ UNCHANGED ipc
    /\ UNCHANGED <<cache, now, nAdv, hop, runs, iArts, iRow, iRes, gen,
                   events>>

\* handleCapInvoke (part_001:481-490) into Cache.Get (cache.go:68-92): the
\* capability is looked up, the key computed, the row selected and tested
InvokeSelect(w) ==
    /\ ipc[w] = "select"
    /\ LET key == iReq[w].key IN
       /\ iRow' = [iRow EXCEPT ![w] = IF key \in CacheKeys THEN cache[key]
                                      ELSE NoRow]
       /\ iReq' = [iReq EXCEPT ![w].at = now,
                               ![w].sets = IF key \in CacheKeys THEN gen[key]
                                           ELSE 0]
       /\ ipc' = [ipc EXCEPT ![w] =
                     IF key \notin CacheKeys \/ cache[key] = NoRow
                     THEN "handler"
                     ELSE IF After(now, cache[key].expires_at) THEN "delete"
                     ELSE "update"]
    /\ UNCHANGED <<cache, now, nAdv, hop, runs, iArts, iRes, ilog, gen,
                   events>>

\* Cache.Get (cache.go:89-93) inside the handler: the lazy DELETE, a miss
InvokeGetDelete(w) ==
    /\ ipc[w] = "delete"
    /\ iReq[w].op = "invoke"
    /\ cache' = [cache EXCEPT ![iReq[w].key] = NoRow]
    /\ ipc' = [ipc EXCEPT ![w] = "handler"]
    /\ UNCHANGED <<now, nAdv, hop, runs, iArts, iReq, iRow, iRes, ilog,
                   gen, events>>

\* Cache.Get (cache.go:95-101) inside the handler: the UPDATE, a hit
InvokeGetUpdate(w) ==
    /\ ipc[w] = "update"
    /\ iReq[w].op = "invoke"
    /\ cache' = [cache EXCEPT ![iReq[w].key] =
                    IF @ = NoRow THEN @ ELSE [@ EXCEPT !.hit_count = @ + 1]]
    /\ iRow' = [iRow EXCEPT ![w].hit_count = @ + 1]
    /\ ipc' = [ipc EXCEPT ![w] = "hit"]
    /\ UNCHANGED <<now, nAdv, hop, runs, iArts, iReq, iRes, ilog, gen, events>>

\* handleCapInvoke (part_001:490-504): the response to a cache hit
InvokeHit(w) ==
    /\ ipc[w] = "hit"
    /\ hop' = [hop EXCEPT ![iReq[w].req.thread_id] = @ + 1]
    /\ events' = Append(events, CapEvent(iReq[w].req.thread_id, TRUE, 0))
    /\ ilog' = Append(ilog, Invocation(w, "ok", TRUE, iRow[w], 0))
    /\ ipc' = [ipc EXCEPT ![w] = "idle"]
    /\ iReq' = [iReq EXCEPT ![w] = NoReq]
    /\ iRow' = [iRow EXCEPT ![w] = NoRow]
    /\ UNCHANGED <<cache, now, nAdv, runs, iArts, iRes, gen>>

\* artifactStoreAdapter.StoreText (part_001:802-814): the artifact is in the
\* store when Put succeeds
StoreText(stock, ref, stored) == IF stored THEN stock \cup {ref} ELSE stock

\* retrievalSearchHandler (registry.go:186-189): the ref of the stored
\* artifact, the empty ref when StoreText fails
HandlerRef(ref, stored) == IF stored THEN ref ELSE 0

\* handleCapInvoke (part_001:508-513) into retrievalSearchHandler
\* (registry.go:150-198): an error for an empty query, else a result with a
\* preview and, when it could be stored, an artifact of its own
InvokeHandler(w, stored) ==
    /\ ipc[w] = "handler"
    /\ IF iReq[w].req.args = ""
       THEN /\ ilog' = Append(ilog, Invocation(w, "500", FALSE, NoRow, 0))
            /\ ipc' = [ipc EXCEPT ![w] = "idle"]
            /\ iReq' = [iReq EXCEPT ![w] = NoReq]
            /\ iRow' = [iRow EXCEPT ![w] = NoRow]
            /\ UNCHANGED <<runs, iArts, iRes>>
       ELSE /\ runs' = runs + 1
            /\ iArts' = StoreText(iArts, runs + 1, stored)
            /\ iRes' = [iRes EXCEPT ![w] =
                           Row(runs + 1, HandlerRef(runs + 1, stored), 0, 0, 0)]
            /\ ipc' = [ipc EXCEPT ![w] = "set"]
            /\ UNCHANGED <<ilog, iReq, iRow>>
    /\ UNCHANGED <<cache, now, nAdv, hop, gen, events>>

\* handleCapInvoke (part_001:515-519): Cache.Set with the capability's TTL
InvokeSet(w) ==
    /\ ipc[w] = "set"
    /\ LET key == iReq[w].key
           row == SetRow(iRes[w].preview, iRes[w].artifact_ref,
                         RetrievalTTLSec, gen[key] + 1)
       IN
       /\ cache' = [cache EXCEPT ![key] = row]
       /\ gen' = [gen EXCEPT ![key] = @ + 1]
       /\ iRes' = [iRes EXCEPT ![w] = row]
       /\ iReq' = [iReq EXCEPT ![w].setAt = now]
    /\ ipc' = [ipc EXCEPT ![w] = "respond"]
    /\ UNCHANGED <<now, nAdv, hop, runs, iArts, iRow, ilog, events>>

\* handleCapInvoke (part_001:520-532): hop_count, the event, the response
InvokeRespond(w) ==
    /\ ipc[w] = "respond"
    /\ hop' = [hop EXCEPT ![iReq[w].req.thread_id] = @ + 1]
    /\ events' = Append(events, CapEvent(iReq[w].req.thread_id, FALSE,
                                         iRes[w].artifact_ref))
    /\ ilog' = Append(ilog, Invocation(w, "ok", FALSE, iRes[w], iRes[w].preview))
    /\ ipc' = [ipc EXCEPT ![w] = "idle"]
    /\ iReq' = [iReq EXCEPT ![w] = NoReq]
    /\ iRow' = [iRow EXCEPT ![w] = NoRow]
    /\ iRes' = [iRes EXCEPT ![w] = NoRow]
    /\ UNCHANGED <<cache, now, nAdv, runs, iArts, gen>>

\* a thread that has made no invocation yet, or all but one of those it may
InvokeInit ==
    /\ cache = [k \in CacheKeys |-> NoRow]
    /\ now \in 0..(TicksPerSec - 1)
    /\ nAdv = 0
    /\ hop \in [InvokeThreads -> {0, DefaultMaxHops - 1}]
    /\ runs = 0
    /\ iArts = {}
    /\ ipc = [w \in CacheWorkers |-> "idle"]
    /\ iReq = [w \in CacheWorkers |-> NoReq]
    /\ iRow = [w \in CacheWorkers |-> NoRow]
    /\ iRes = [w \in CacheWorkers |-> NoRow]
    /\ ilog = <<>>
    /\ gen = [k \in CacheKeys |-> 0]

\* the handler appends to the event log and touches nothing else outside the
\* cache and the threads table
InvokeOnly ==
    UNCHANGED <<rows, files, created, arts, pc, wThread, wOps, wCur, wNext,
                wMeta, hist, calls, headerVars, compactVars, extraVars>>

NextInvoke ==
    \/ \E w \in CacheWorkers, r \in Requests : InvokeStart(w, r) /\ InvokeOnly
    \/ \E w \in CacheWorkers : InvokeSelect(w) /\ InvokeOnly
    \/ \E w \in CacheWorkers : InvokeGetDelete(w) /\ InvokeOnly
    \/ \E w \in CacheWorkers : InvokeGetUpdate(w) /\ InvokeOnly
    \/ \E w \in CacheWorkers : InvokeHit(w) /\ InvokeOnly
    \/ \E w \in CacheWorkers, stored \in BOOLEAN :
          InvokeHandler(w, stored) /\ InvokeOnly
    \/ \E w \in CacheWorkers : InvokeSet(w) /\ InvokeOnly
    \/ \E w \in CacheWorkers : InvokeRespond(w) /\ InvokeOnly
    \/ \E w \in CacheWorkers, k \in CacheKeys : Invalidate(w, k) /\ CacheOnly
    \/ \E d \in Jumps : Tick(d) /\ CacheOnly

(***************************************************************************)
(* internal/cache/cache.go : Key with normalizeArgs                        *)
(*                                                                         *)
(* An args value is nil or a JSON object as the caller wrote it: members   *)
(* in written order, names possibly repeated, with or without white space  *)
(* between the tokens.                                                     *)
(***************************************************************************)
MaxMembers == 2                 \* members of an args object

ArgNames == <<"a", "b">>        \* member names, in byte order
ArgValues == {"1", "2"}

Member(k, v) == [k |-> k, v |-> v]

NilArgs == [nil |-> TRUE, ms |-> <<>>, ws |-> FALSE]

ObjArgs(ms, ws) == [nil |-> FALSE, ms |-> ms, ws |-> ws]

ArgsInputs ==
    {NilArgs} \cup
    {ObjArgs(ms, ws) :
        ms \in SeqsUpTo({Member(ArgNames[i], v) :
                            i \in 1..Len(ArgNames), v \in ArgValues},
                        MaxMembers),
        ws \in BOOLEAN}

HasName(ms, k) == \E i \in 1..Len(ms) : ms[i].k = k

\* json.Unmarshal into a map: of members with one name the last one stays
LastValue(ms, k) ==
    ms[CHOOSE i \in 1..Len(ms) :
          ms[i].k = k /\ \A j \in (i + 1)..Len(ms) : ms[j].k # k].v

\* encoding/json writes a map with its names sorted
RECURSIVE SortedMembers(_, _)
SortedMembers(ms, i) ==
    IF i > Len(ArgNames) THEN <<>>
    ELSE (IF HasName(ms, ArgNames[i])
          THEN <<Member(ArgNames[i], LastValue(ms, ArgNames[i]))>>
          ELSE <<>>) \o SortedMembers(ms, i + 1)

\* args marshalled as they were written
KeepWritten(args) == args

\* normalizeArgs (cache.go:147-161): nil stays nil; anything else is
\* marshalled and unmarshalled into a map, held here as the members
\* json.Marshal will write for it
normalizeArgs(args) ==
    IF args.nil THEN args ELSE ObjArgs(SortedMembers(args.ms, 1), FALSE)

RECURSIVE MembersJSON(_)
MembersJSON(ms) ==
    IF ms = <<>> THEN ""
    ELSE "\"" \o Head(ms).k \o "\":" \o Head(ms).v
           \o (IF Len(ms) > 1 THEN "," ELSE "") \o MembersJSON(Tail(ms))

\* json.Marshal of the normalized value (cache.go:57)
MarshalArgs(v) == IF v.nil THEN "null" ELSE "{" \o MembersJSON(v.ms) \o "}"

\* Key (cache.go:56-65) from the args value
KeyFor(tenant, capability, args, scope, version) ==
    Key(tenant, capability, MarshalArgs(normalizeArgs(args)), scope, version)

KeyInput(ten, cap, args, scope, ver) ==
    [tenant |-> ten, capability |-> cap, args |-> args, scope |-> scope,
     version |-> ver]

\* tenant and thread_id are taken from the request as they come
\* (part_001:464-470); Key itself takes any capability and version
SeparatorInputs ==
    {KeyInput(ten, cap, a, sc, ver) :
        ten \in {"a", "a|b"}, cap \in {"c", "b|c"},
        a \in {x \in ArgsInputs : x.nil \/ (Len(x.ms) = 1 /\ ~x.ws)},
        sc \in {"T1", "T1|x"}, ver \in {"v1", "x|v1"}}

KeyInputs ==
    {KeyInput(ten, "retrieval.search", a, sc, "v1") :
        ten \in {DefaultTenant, "t2"}, a \in ArgsInputs, sc \in {"T1", "T2"}}
    \cup SeparatorInputs

NoKeyInput == KeyInput("", "", NilArgs, "", "")

KeyIdle == kA = NoKeyInput /\ kB = NoKeyInput /\ kOut = <<>> /\ kPhase = "off"

KeyInit == kA \in KeyInputs /\ kB \in KeyInputs /\ kOut = <<>> /\ kPhase = "in"

KeyCall ==
    /\ kPhase = "in"
    /\ kOut' = <<KeyFor(kA.tenant, kA.capability, kA.args, kA.scope,
                        kA.version),
                 KeyFor(kB.tenant, kB.capability, kB.args, kB.scope,
                        kB.version)>>
    /\ kPhase' = "out"
    /\ UNCHANGED <<kA, kB>>

\* the JSON value an args value stands for: null, or the object as a map
Canonical(args) ==
    [null |-> args.nil,
     map  |-> [k \in {args.ms[i].k : i \in 1..Len(args.ms)} |->
                  LastValue(args.ms, k)]]

SameButArgs(x, y) ==
    /\ x.tenant = y.tenant /\ x.capability = y.capability
    /\ x.scope = y.scope /\ x.version = y.version

\* C13: with tenant, capability, scope and version the same, two args values
\* that canonicalize to the same JSON (the same map whatever the order of
\* its names) give the same key, and two that canonicalize to different JSON
\* give different keys.
C13_KeyFollowsCanonicalArgs ==
    (kPhase = "out" /\ SameButArgs(kA, kB)) =>
        (kOut[1] = kOut[2] <=> Canonical(kA.args) = Canonical(kB.args))

\* the same two members written in the two orders got one key
C13_ReorderedSameKey ==
    /\ kPhase = "out"
    /\ SameButArgs(kA, kB)
    /\ Len(kA.args.ms) = 2
    /\ kA.args.ms[1].k # kA.args.ms[2].k
    /\ kB.args.ms = <<kA.args.ms[2], kA.args.ms[1]>>
    /\ kOut[1] = kOut[2]

(***************************************************************************)
(* internal/artifacts/store.go : Store.Put, save, Get, Open                *)
(*                                                                         *)
(* A content is a sequence of bytes.  The digest of a content is the       *)
(* content under a tag: SHA-256 is taken to be one-to-one.                 *)
(***************************************************************************)
MaxPuts == 2                    \* Put calls in one behaviour

ArtThreads == {"T1", "T2"}
ArtTypes   == {"text", "markdown"}
NewRefs    == {"a1", "a2"}      \* the values newRef can return
Contents   == {<<>>, <<1>>, <<1, 2>>}

\* extForType (store.go:386-404)
extForType(atype) ==
    CASE atype = "markdown" -> ".md"
      [] atype = "json"     -> ".json"
      [] atype = "html"     -> ".html"
      [] atype \in {"text", "tool_output"} -> ".txt"
      [] atype = "email"    -> ".eml"
      [] OTHER              -> ".bin"

\* <baseDir>/threads/<thread>/artifacts/<ref><ext>, and the same with ".tmp"
Path(t, ref, ext, tmp) == [thread |-> t, ref |-> ref, ext |-> ext, tmp |-> tmp]

Paths ==
    {Path(t, ref, extForType(ty), tmp) :
        t \in ArtThreads, ref \in NewRefs, ty \in ArtTypes, tmp \in BOOLEAN}

\* no file at the path (a content holds bytes, which are not negative)
NoFile == <<0 - 1>>

NoArtRow == [thread_id |-> "", type |-> "", size |-> 0 - 1, hash |-> <<>>,
             path |-> Path("", "", "", FALSE)]

SHA256(content) == <<"sha256", content>>

\* the steps of Put that can fail
PutFaults == {"none", "mkdir", "create", "read", "write", "rename", "insert"}

\* the prefixes of a content: what a failed write can leave in the file
Prefixes(c) == {SubSeq(c, 1, n) : n \in 0..Len(c)}

\* Store.Get (store.go:160-189): the row, or NoArtRow for "not found"
ArtGet(t, ref) ==
    IF aRows[ref] # NoArtRow /\ aRows[ref].thread_id = t THEN aRows[ref]
    ELSE NoArtRow

\* Store.Open (store.go:217-223) followed by a read: [ok, content]
Open(t, ref) ==
    LET art == ArtGet(t, ref) IN
    IF art = NoArtRow \/ aFiles[art.path] = NoFile
    THEN [ok |-> FALSE, content |-> <<>>]
    ELSE [ok |-> TRUE, content |-> aFiles[art.path]]

\* a completed Put; existed tells whether the ref had a row when it started
PutCall(t, ty, c, ref, fail, res, existed, before) ==
    [thread |-> t, type |-> ty, content |-> c, ref |-> ref, fail |-> fail,
     res |-> res, size |-> Len(c), hash |-> SHA256(c), existed |-> existed,
     before |-> before]

\* Store.Put (store.go:98-157) with save (store.go:308-321); ref is the value
\* newRef returned and fail the step that fails, if any
Put(t, ty, c, ref, fail) ==
    LET path == Path(t, ref, extForType(ty), FALSE)
        tmp  == Path(t, ref, extForType(ty), TRUE)
        row  == [thread_id |-> t, type |-> ty, size |-> Len(c),
                 hash |-> SHA256(c), path |-> path]
        done(res) == Append(aLog, PutCall(t, ty, c, ref, fail, res,
                                          aRows[ref] # NoArtRow,
                                          [row |-> aRows[ref],
                                           file |-> aFiles[aRows[ref].path]]))
    IN
    /\ Len(aLog) < MaxPuts
    /\ CASE fail \in {"mkdir", "create"} ->
              \* os.MkdirAll or os.Create fails: nothing was made
              /\ aLog' = done("err")
              /\ UNCHANGED <<aRows, aFiles>>
         [] fail \in {"read", "rename"} ->
              \* the temporary file was created and is removed again
              /\ aLog' = done("err")
              /\ aFiles' = [aFiles EXCEPT ![tmp] = NoFile]
              /\ UNCHANGED aRows
         [] fail = "write" ->
              \* os.WriteFile fails: Put returns with the temporary file left
              /\ \E part \in Prefixes(c) :
                    aFiles' = [aFiles EXCEPT ![tmp] = part]
              /\ aLog' = done("err")
              /\ UNCHANGED aRows
         [] fail = "insert" ->
              \* renamed into place, save fails, the file at path is removed
              /\ aLog' = done("err")
              /\ aFiles' = [aFiles EXCEPT ![tmp] = NoFile, ![path] = NoFile]
              /\ UNCHANGED aRows
         [] OTHER ->
              \* renamed into place, INSERT OR REPLACE of the row
              /\ aLog' = done("ok")
              /\ aFiles' = [aFiles EXCEPT ![tmp] = NoFile, ![path] = c]
              /\ aRows' = [aRows EXCEPT ![ref] = row]
    /\ UNCHANGED aRead

NoRead == [thread |-> "", ref |-> "", ok |-> FALSE, content |-> <<>>]

\* Store.Open and a read of what it returned
OpenRead(t, ref) ==
    /\ aRead' = [thread |-> t, ref |-> ref, ok |-> Open(t, ref).ok,
                 content |-> Open(t, ref).content]
    /\ UNCHANGED <<aRows, aFiles, aLog>>

ArtInit ==
    /\ aRows = [ref \in NewRefs |-> NoArtRow]
    /\ aFiles = [p \in Paths \cup {NoArtRow.path} |-> NoFile]
    /\ aLog = <<>>
    /\ aRead = NoRead

(***************************************************************************)
(* internal/artifacts/store.go : generatePreview, sanitizePreview          *)
(*                                                                         *)
(* A string is the sequence of its bytes, a byte being written as the      *)
(* character it encodes.  The contents are ASCII text plus one byte that   *)
(* is no valid UTF-8.  Indexes are counted from 0 as in the source, and    *)
(* s[:i] and s[i:] are the operators UpTo and From.                        *)
(***************************************************************************)
MaxPreviewBytes == 2048
MaxPieces       == 3

UpperLetters ==
    <<"A", "B", "C", "D", "E", "F", "G", "H", "I", "J", "K", "L", "M", "N",
      "O", "P", "Q", "R", "S", "T", "U", "V", "W", "X", "Y", "Z">>
LowerLetters ==
    <<"a", "b", "c", "d", "e", "f", "g", "h", "i", "j", "k", "l", "m", "n",
      "o", "p", "q", "r", "s", "t", "u", "v", "w", "x", "y", "z">>

LowerOf ==
    [c \in {UpperLetters[i] : i \in DOMAIN UpperLetters} |->
        LowerLetters[CHOOSE i \in DOMAIN UpperLetters : UpperLetters[i] = c]]
UpperOf ==
    [c \in {LowerLetters[i] : i \in DOMAIN LowerLetters} |->
        UpperLetters[CHOOSE i \in DOMAIN LowerLetters : LowerLetters[i] = c]]

\* strings.ToLower on ASCII text
ToLower(s) ==
    [i \in 1..Len(s) |-> IF s[i] \in DOMAIN LowerOf THEN LowerOf[s[i]] ELSE s[i]]

\* every letter in the other case
SwapCase(s) ==
    [i \in 1..Len(s) |->
        IF s[i] \in DOMAIN LowerOf THEN LowerOf[s[i]]
        ELSE IF s[i] \in DOMAIN UpperOf THEN UpperOf[s[i]] ELSE s[i]]

UpTo(s, i) == SubSeq(s, 1, i)
From(s, i) == SubSeq(s, i + 1, Len(s))

\* p occurs in s at index i
MatchAt(s, p, i) == \A k \in 1..Len(p) : s[i + k] = p[k]

\* strings.Contains
Contains(s, p) == \E i \in 0..(Len(s) - Len(p)) : MatchAt(s, p, i)

\* strings.Index: the index of the first occurrence, -1 when there is none
Index(s, p) ==
    IF Contains(s, p)
    THEN CHOOSE i \in 0..(Len(s) - Len(p)) :
             MatchAt(s, p, i) /\ \A j \in 0..(i - 1) : ~MatchAt(s, p, j)
    ELSE 0 - 1

\* strings.LastIndex: the index of the last occurrence, -1 when there is none
LastIndex(s, p) ==
    IF Contains(s, p)
    THEN CHOOSE i \in 0..(Len(s) - Len(p)) :
             /\ MatchAt(s, p, i)
             /\ \A j \in (i + 1)..(Len(s) - Len(p)) : ~MatchAt(s, p, j)
    ELSE 0 - 1

\* the patterns of sanitizePreview, in the order of the source
dangerous == <<
    <<"i", "g", "n", "o", "r", "e", " ", "p", "r", "e", "v", "i", "o", "u",
      "s", " ", "i", "n", "s", "t", "r", "u", "c", "t", "i", "o", "n", "s">>,
    <<"i", "g", "n", "o", "r", "e", " ", "a", "l", "l", " ", "i", "n", "s",
      "t", "r", "u", "c", "t", "i", "o", "n", "s">>,
    <<"<", "|", "s", "y", "s", "t", "e", "m", "|", ">">>,
    <<"<", "|", "u", "s", "e", "r", "|", ">">>,
    <<"<", "|", "a", "s", "s", "i", "s", "t", "a", "n", "t", "|", ">">>,
    <<"[", "I", "N", "S", "T", "]">>,
    <<"[", "/", "I", "N", "S", "T", "]">>,
    <<"#", "#", "#", "i", "n", "s", "t", "r", "u", "c", "t", "i", "o", "n">>,
    <<"#", "#", "#", "s", "y", "s", "t", "e", "m">>>>

Marker ==
    <<"[", "S", "A", "N", "I", "T", "I", "Z", "E", "D", "]">>

\* the loop of sanitizePreview from pattern k on: one test and one
\* replacement for each pattern, lower being recomputed after a replacement
RECURSIVE sanitizeFrom(_, _, _)
sanitizeFrom(text, lower, k) ==
    IF k > Len(dangerous) THEN text
    ELSE LET pattern == dangerous[k]
             idx     == Index(lower, ToLower(pattern))
             masked  == UpTo(text, idx) \o Marker
                            \o From(text, idx + Len(pattern))
         IN IF Contains(lower, ToLower(pattern))
            THEN sanitizeFrom(masked, ToLower(masked), k + 1)
            ELSE sanitizeFrom(text, lower, k + 1)

sanitizePreview(text) == sanitizeFrom(text, ToLower(text), 1)

\* ---- generatePreview ----
InvalidByte == "0xFF"
NewLine     == "\n"
ellipsis    == <<NewLine, ".", ".", ".">>

\* utf8.Valid
Valid(content) == \A i \in 1..Len(content) : content[i] # InvalidByte

DigitChars == <<"0", "1", "2", "3", "4", "5", "6", "7", "8", "9">>

\* fmt.Sprintf("%d", n) for n >= 0
RECURSIVE Decimal(_)
Decimal(n) ==
    IF n < 10 THEN <<DigitChars[n + 1]>>
    ELSE Decimal(n \div 10) \o <<DigitChars[(n % 10) + 1]>>

BinaryMarker(n) ==
    <<"[", "b", "i", "n", "a", "r", "y", ",", " ">>
        \o Decimal(n) \o
    <<" ", "b", "y", "t", "e", "s", "]">>
BinaryDataMarker(n) ==
    <<"[", "b", "i", "n", "a", "r", "y", " ", "d", "a", "t", "a", ",", " ">>
        \o Decimal(n) \o
    <<" ", "b", "y", "t", "e", "s", "]">>

\* len(strings.Split(text, "\n"))
LineCount(text) == Cardinality({i \in 1..Len(text) : text[i] = NewLine}) + 1

\* a truncated preview keeps MaxPreviewBytes less the room for the ellipsis
WholeCap(e) == MaxPreviewBytes
TruncLimit(e) == MaxPreviewBytes - Len(e)

generatePreview(content, atype) ==
    LET size == Len(content)
        text == sanitizePreview(content)
        cut  == UpTo(text, TruncLimit(ellipsis))
        idx  == LastIndex(cut, <<NewLine>>)
        trunc == IF idx > 0 THEN UpTo(cut, idx) ELSE cut
    IN IF atype = "binary"
       THEN [text |-> BinaryMarker(size), line_count |-> 0,
             truncated |-> FALSE, size |-> size]
       ELSE IF ~Valid(content)
       THEN [text |-> BinaryDataMarker(size), line_count |-> 0,
             truncated |-> TRUE, size |-> size]
       ELSE IF Len(text) > MaxPreviewBytes
       THEN [text |-> trunc \o ellipsis, line_count |-> LineCount(text),
             truncated |-> TRUE, size |-> size]
       ELSE [text |-> text, line_count |-> LineCount(text),
             truncated |-> FALSE, size |-> size]

\* ---- the contents generatePreview is called on ----
PreviewTypes == {"text", "binary"}

\* the pieces a short content is made of: every pattern as written and in
\* the other letter case, a letter, a line break and the invalid byte
Pieces ==
    {dangerous[k] : k \in DOMAIN dangerous}
        \cup {SwapCase(dangerous[k]) : k \in DOMAIN dangerous}
        \cup {<<"a">>, <<NewLine>>, <<InvalidByte>>}

RECURSIVE Concat(_)
Concat(ps) == IF ps = <<>> THEN <<>> ELSE Head(ps) \o Concat(Tail(ps))

\* n letters, the one at position nl (if any) replaced by a line break
Pad(n, nl) == [i \in 1..n |-> IF i = nl THEN NewLine ELSE "a"]

\* the lengths around which a content with one piece reaches the cap
PadLens ==
    {0, MaxPreviewBytes - Len(Marker), MaxPreviewBytes - Len(Marker) + 1,
     MaxPreviewBytes - 1, MaxPreviewBytes, MaxPreviewBytes + 1}
BreakAt == {0, 1, MaxPreviewBytes - 48}

PreviewInputs ==
    {inp \in [pad : PadLens, nl : BreakAt,
              pieces : SeqsUpTo(Pieces, MaxPieces)] :
        /\ inp.pad = 0 => inp.nl = 0
        /\ inp.pad > 0 => Len(inp.pieces) <= 1}

Content(inp) == Pad(inp.pad, inp.nl) \o Concat(inp.pieces)

NoPreview == [text |-> <<>>, line_count |-> 0, truncated |-> FALSE, size |-> 0]

PreviewIdle ==
    /\ pContent = <<>>
    /\ pType = "text"
    /\ pOut = NoPreview
    /\ pPhase = "idle"

PreviewInit ==
    /\ \E inp \in PreviewInputs : pContent = Content(inp)
    /\ pType \in PreviewTypes
    /\ pOut = NoPreview
    /\ pPhase = "input"

PreviewCall ==
    /\ pPhase = "input"
    /\ pOut' = generatePreview(pContent, pType)
    /\ pPhase' = "done"
    /\ UNCHANGED <<pContent, pType>>

(***************************************************************************)
(* client/client.go : Client.BuildRPB, internal/rpb/rpb.go : Validate      *)
(*                                                                         *)
(* The state_header of a bundle is the JSON of a Header: it is kept as the *)
(* Header, and its length is HeaderBytes.  A ref is a number, the order of *)
(* the numbers being the byte order of the refs; created_at is in seconds. *)
(***************************************************************************)
RpbMaxHeaderBytes  == 2048
RpbMaxPreviewBytes == 2048
MaxPreviews        == 10

RpbPreview(ref, excerpt) == [artifact_id |-> ref, excerpt |-> excerpt]

Bundle(user, header, refs, previews) ==
    [model_id |-> "", user |-> user, state_header |-> header,
     artifact_refs |-> refs, previews |-> previews]

NoBundle == Bundle(<<>>, NoHeader, <<>>, <<>>)

\* a validation that accepts every bundle
AcceptAll(b) == "ok"

\* Bundle.Validate: the first cap found exceeded, "ok" when none is
Validate(b) ==
    IF HeaderBytes(b.state_header) > RpbMaxHeaderBytes THEN "state_header"
    ELSE IF Len(b.previews) > MaxPreviews THEN "previews count"
    ELSE IF \E i \in 1..Len(b.previews) :
                Len(b.previews[i].excerpt) > RpbMaxPreviewBytes
         THEN "preview"
    ELSE "ok"

\* an order on the creation time alone
NewestFirst(x, y) == x.created_at > y.created_at

\* the less function of sort.Slice in BuildRPB: newest first, then by ref
ArtBefore(x, y) ==
    IF x.created_at # y.created_at THEN x.created_at > y.created_at
    ELSE x.ref < y.ref

\* sort.Slice on a slice of at most 12 elements is an insertion sort: the
\* element at j moves down while it is less than the one before it
RECURSIVE SiftDown(_, _)
SiftDown(s, j) ==
    IF j > 1 /\ ArtBefore(s[j], s[j - 1])
    THEN SiftDown([s EXCEPT ![j] = s[j - 1], ![j - 1] = s[j]], j - 1)
    ELSE s

RECURSIVE InsertionSort(_, _)
InsertionSort(s, i) ==
    IF i > Len(s) THEN s ELSE InsertionSort(SiftDown(s, i), i + 1)

SortArts(listed) == InsertionSort(listed, 2)

\* Store.List: the rows of the thread, ORDER BY created_at DESC; rows of the
\* same second come in an order the query does not fix
RECURSIVE ListOrders(_)
ListOrders(S) ==
    IF S = {} THEN {<<>>}
    ELSE UNION {{<<x>> \o rest : rest \in ListOrders(S \ {x})} :
                   x \in {a \in S : \A o \in S : a.created_at >= o.created_at}}

\* the loop over the sorted artifacts from index i on (client.go:192-202)
RECURSIVE AddPreviews(_, _, _)
AddPreviews(b, sorted, i) ==
    IF i > Len(sorted) \/ i - 1 >= MaxPreviews THEN b
    ELSE LET art     == sorted[i]
             text    == art.preview.text
             excerpt == IF Len(text) > RpbMaxPreviewBytes
                        THEN UpTo(text, RpbMaxPreviewBytes) ELSE text
         IN AddPreviews(
                [b EXCEPT !.artifact_refs = Append(@, art.ref),
                          !.previews = Append(@, RpbPreview(art.ref, excerpt))],
                sorted, i + 1)

\* the model of a client with no model set (client.go:156-162)
DefaultModel == "gpt-4o"

\* the bundle BuildRPB hands to Validate
Assemble(model, user, st, listed) ==
    AddPreviews([Bundle(user, Header(st), <<>>, <<>>) EXCEPT
                    !.model_id = IF model = "" THEN DefaultModel ELSE model],
                SortArts(listed), 1)

RPBInfo(err, b, tid) ==
    [err |-> err, bundle |-> b, thread_id |-> tid,
     header_bytes |-> HeaderBytes(b.state_header),
     preview_bytes |->
         SeqSum([i \in 1..Len(b.previews) |-> Len(b.previews[i].excerpt)]),
     preview_count |-> Len(b.previews)]

NoRPBInfo == RPBInfo("", NoBundle, "")

\* Client.BuildRPB on the thread tid that ensureThread returned, listed being
\* what Store.List returned for it
BuildRPB(model, user, st, listed, tid) ==
    LET b == Assemble(model, user, st, listed)
    IN IF TrimSpace(user) = <<>>
       THEN RPBInfo("user prompt required", NoBundle, "")
       ELSE IF Validate(b) # "ok" THEN RPBInfo(Validate(b), NoBundle, "")
       ELSE RPBInfo("", b, tid)

\* ---- the threads BuildRPB is called on ----
Users  == {<<>>, <<" ">>, <<"h", "i">>}
Models == {"", "m1"}

BundleThread     == "T1"
NewBundleThreads == {"N1", "N2"}

\* previews as Put stored them: of a short content, of a content with a
\* pattern, and of a content over the cap
StoredPreviews ==
    {generatePreview(c, "text") :
        c \in {<<"a">>, dangerous[1], Pad(MaxPreviewBytes + 1, 0)}}

\* n artifacts with the same preview; the first two pairs of them were
\* created in the same second
ArtList(n, p) ==
    {[ref |-> i, created_at |-> IF i <= 4 THEN (i + 1) \div 2 ELSE i,
      preview |-> p] : i \in 1..n}

ArtLists ==
    {{}} \cup {ArtList(n, p) : n \in {2, MaxPreviews, MaxPreviews + 1},
                              p \in StoredPreviews}

BundleStates ==
    {st \in HeaderInputs :
        /\ st.open_questions = <<>> /\ st.plan = <<>>
        /\ st.last_actions = <<>> /\ st.artifacts = <<>>}

\* what the engine holds before the calls: the thread BundleThread with the
\* versions of its state up to v and its thread.created event
BundleStore(v) ==
    [threads |-> {BundleThread},
     states |-> {<<BundleThread, i>> : i \in 1..v},
     events |-> <<<<BundleThread, "thread.created">>>>]

\* Engine.CreateThread (engine.go:103-123): the threads row, version 1 of the
\* state and the thread.created event
CreateThreadIn(store, tid) ==
    [threads |-> store.threads \cup {tid},
     states |-> store.states \cup {<<tid, 1>>},
     events |-> Append(store.events, <<tid, "thread.created">>)]

\* ensureThread (client.go:236-247) on a thread id that is empty or not
\* found; BuildRPB returns before it when the user prompt is blank
EnsureNewThread(store, user, tid) ==
    IF TrimSpace(user) = <<>> THEN store ELSE CreateThreadIn(store, tid)

NoBuild ==
    [model |-> "", user |-> <<>>, known |-> FALSE, state |-> NoHState,
     arts |-> {}]

BundleIdle ==
    /\ bIn = NoBuild
    /\ bOut = NoRPBInfo
    /\ bPrev = NoRPBInfo
    /\ bPhase = "idle"
    /\ bStore = BundleStore(1)

BundleInit ==
    /\ bIn \in [model : Models, user : Users, known : BOOLEAN,
                state : BundleStates, arts : ArtLists]
    /\ bOut = NoRPBInfo
    /\ bPrev = NoRPBInfo
    /\ bPhase = "input"
    /\ bStore = BundleStore(bIn.state.version)

\* one call of BuildRPB on the thread; a thread that is not found is
\* replaced by a new one, whose state is empty and which has no artifact
BundleCall ==
    /\ bPhase \in {"input", "done"}
    /\ \/ /\ bIn.known
          /\ \E listed \in ListOrders(bIn.arts) :
                bOut' = BuildRPB(bIn.model, bIn.user, bIn.state, listed,
                                 BundleThread)
          /\ UNCHANGED bStore
       \/ /\ ~bIn.known
          /\ \E tid \in NewBundleThreads \ bStore.threads :
                /\ bOut' = BuildRPB(bIn.model, bIn.user, NoHState, <<>>, tid)
                /\ bStore' = EnsureNewThread(bStore, bIn.user, tid)
    /\ bPrev' = bOut
    /\ bPhase' = IF bPhase = "input" THEN "done" ELSE "twice"
    /\ UNCHANGED bIn

(***************************************************************************)
(* internal/events/store.go : Append, newEventID, List, Since              *)
(*                                                                         *)
(* The clock counts tenths of a second.  A timestamp is stored as the text *)
(* time.RFC3339Nano gives: the seconds, then the fraction without its      *)
(* trailing zeros (nothing at all for a whole second), then "Z".  Of the   *)
(* text only the seconds and what follows are kept, as byte values, the    *)
(* date and the minutes being the same for all the times of the model.     *)
(* The database compares such texts byte by byte.                          *)
(***************************************************************************)
MaxEvCalls == 2      \* patches and appends started in one behaviour
MaxTicks   == 2      \* clock advances in one behaviour

EvWorkers   == {"e1", "e2"}
EvThreads   == {"T1", "T2"}
EvLimits    == {0, 1}
PatchSizes  == {1, 2}

\* the counter part of an event id: eventCounter & 0xFFFFFF
CounterMask == 16777216

\* fmt.Sprintf("%013x%06x", time.Now().UnixMilli(), eventCounter&0xFFFFFF)
EventID(clock, counter) == [ms |-> clock * 100, n |-> counter % CounterMask]

NoEventID == [ms |-> 0, n |-> 0]

\* Timestamp.Format(time.RFC3339Nano), from the seconds on
FormatNano(t) ==
    LET sec  == t \div 10
        frac == t % 10
    IN <<48 + (sec \div 10), 48 + (sec % 10)>>
           \o (IF frac = 0 THEN <<>> ELSE <<46, 48 + frac>>)
           \o <<90>>

\* the order of two TEXT values under the BINARY collation
TextLess(a, b) ==
    \E i \in 1..Len(b) :
        /\ \A k \in 1..(i - 1) : k <= Len(a) /\ a[k] = b[k]
        /\ \/ i = Len(a) + 1
           \/ i <= Len(a) /\ a[i] < b[i]

EvRow(id, t, ty, payload, ts) ==
    [id |-> id, thread_id |-> t, type |-> ty, payload |-> payload,
     timestamp |-> ts]

PatchPayload(n, v) == [ops |-> n, version |-> v]
NoPayload == PatchPayload(0, 0)

\* the rows of a query in an order ORDER BY timestamp ASC allows: rows with
\* the same text come in an order the query does not fix
RECURSIVE ByTimestamp(_)
ByTimestamp(S) ==
    IF S = {} THEN {<<>>}
    ELSE UNION {{<<x>> \o rest : rest \in ByTimestamp(S \ {x})} :
                   x \in {a \in S :
                            \A o \in S : ~TextLess(o.timestamp, a.timestamp)}}

Limit(s, limit) == IF limit > 0 THEN FirstN(s, limit) ELSE s

\* Store.List without a type filter: what it may return
EventList(table, t, limit) ==
    {Limit(s, limit) : s \in ByTimestamp({r \in table : r.thread_id = t})}

\* Store.Since: what it may return; afterTS stays empty when afterID is
\* empty or names no row
Since(table, t, afterID, limit) ==
    LET found   == {r \in table : r.id = afterID}
        afterTS == IF afterID = NoEventID \/ found = {} THEN <<>>
                   ELSE (CHOOSE r \in found : TRUE).timestamp
        sel     == {r \in table :
                      /\ r.thread_id = t
                      /\ afterTS # <<>> => TextLess(afterTS, r.timestamp)}
    IN {Limit(s, limit) : s \in ByTimestamp(sel)}

\* ---- the calls ----
NoEvReq == [thread |-> "", type |-> "", payload |-> NoPayload, patch |-> FALSE,
            alone |-> TRUE]

EvBusy == {w \in EvWorkers : ePc[w] # "idle"}

\* a call starts on the first free worker
EvFree(w) == ePc[w] = "idle" /\ (w = "e2" => ePc["e1"] # "idle")

\* Store.Append is entered with the request req; the appends in flight are
\* no longer alone
EnterAppend(w, req) ==
    /\ ePc' = [ePc EXCEPT ![w] = "load"]
    /\ eReq' = [u \in EvWorkers |->
                   IF u = w THEN [req EXCEPT !.alone = (EvBusy = {})]
                   ELSE IF u \in EvBusy THEN [eReq[u] EXCEPT !.alone = FALSE]
                   ELSE eReq[u]]

\* uploadArtifact and the other handlers that append an event of their own
PlainAppend(w, t) ==
    /\ EvFree(w)
    /\ eCalls < MaxEvCalls
    /\ eCalls' = eCalls + 1
    /\ EnterAppend(w, [NoEvReq EXCEPT !.thread = t,
                                       !.type = "artifact.created"])
    /\ UNCHANGED <<eRows, eCounter, eClock, eTicks, eTmp, eEv, eLog,
                   eVersion, eOut>>

\* Server.patchState: Store.Patch succeeds or fails; after a success the
\* event is appended, and whatever Append returns the response is a success
ServerPatch(w, t, n, ok) ==
    /\ EvFree(w)
    /\ eCalls < MaxEvCalls
    /\ eCalls' = eCalls + 1
    /\ IF ok
       THEN /\ eVersion' = [eVersion EXCEPT ![t] = @ + 1]
            /\ EnterAppend(w, [NoEvReq EXCEPT
                                  !.thread = t,
                                  !.type = "state.patch.applied",
                                  !.payload = PatchPayload(n, eVersion[t] + 1),
                                  !.patch = TRUE])
            /\ UNCHANGED eLog
       ELSE /\ eLog' = Append(eLog, [op |-> "patch", thread |-> t, ops |-> n,
                                     version |-> 0, res |-> "err",
                                     id |-> NoEventID, alone |-> TRUE])
            /\ UNCHANGED <<eVersion, ePc, eReq>>
    /\ UNCHANGED <<eRows, eCounter, eClock, eTicks, eTmp, eEv, eOut>>

\* Engine.PatchState: Store.Patch and nothing else
EnginePatch(t, n, ok) ==
    /\ eCalls < MaxEvCalls
    /\ eCalls' = eCalls + 1
    /\ eVersion' = [eVersion EXCEPT ![t] = IF ok THEN @ + 1 ELSE @]
    /\ eLog' = Append(eLog, [op |-> "patch", thread |-> t, ops |-> n,
                             version |-> IF ok THEN eVersion[t] + 1 ELSE 0,
                             res |-> IF ok THEN "ok" ELSE "err",
                             id |-> NoEventID, alone |-> TRUE])
    /\ UNCHANGED <<eRows, eCounter, eClock, eTicks, ePc, eReq, eTmp, eEv,
                   eOut>>

\* newEventID, eventCounter++ : the counter is read ...
CounterLoad(w) ==
    /\ ePc[w] = "load"
    /\ eTmp' = [eTmp EXCEPT ![w] = eCounter]
    /\ ePc' = [ePc EXCEPT ![w] = "store"]
    /\ UNCHANGED <<eRows, eCounter, eClock, eTicks, eReq, eEv, eLog,
                   eVersion, eOut, eCalls>>

\* ... and written back one higher
CounterStore(w) ==
    /\ ePc[w] = "store"
    /\ eCounter' = eTmp[w] + 1
    /\ ePc' = [ePc EXCEPT ![w] = "id"]
    /\ UNCHANGED <<eRows, eClock, eTicks, eReq, eTmp, eEv, eLog, eVersion,
                   eOut, eCalls>>

\* newEventID formats the id from the clock and the counter as it is now,
\* and Append stamps the event
MakeEvent(w) ==
    /\ ePc[w] = "id"
    /\ eEv' = [eEv EXCEPT ![w] =
                  EvRow(EventID(eClock, eCounter), eReq[w].thread,
                        eReq[w].type, eReq[w].payload, FormatNano(eClock))]
    /\ ePc' = [ePc EXCEPT ![w] = "insert"]
    /\ UNCHANGED <<eRows, eCounter, eClock, eTicks, eReq, eTmp, eLog,
                   eVersion, eOut, eCalls>>

\* the INSERT, refused when a row has the id (id is the primary key); the
\* caller is patchState, which answers with a success either way, or another
\* handler
InsertEvent(w) ==
    /\ ePc[w] = "insert"
    /\ LET clash == \E i \in 1..Len(eRows) : eRows[i].id = eEv[w].id
           entry(op, res) ==
               [op |-> op, thread |-> eReq[w].thread,
                ops |-> eReq[w].payload.ops,
                version |-> eReq[w].payload.version, res |-> res,
                id |-> eEv[w].id, alone |-> eReq[w].alone]
           appended == entry("append", IF clash THEN "err" ELSE "ok")
       IN /\ eRows' = IF clash THEN eRows ELSE Append(eRows, eEv[w])
          /\ eLog' = IF eReq[w].patch
                     THEN eLog \o <<appended, entry("patch", "ok")>>
                     ELSE Append(eLog, appended)
    /\ ePc' = [ePc EXCEPT ![w] = "idle"]
    /\ eReq' = [eReq EXCEPT ![w] = NoEvReq]
    /\ eTmp' = [eTmp EXCEPT ![w] = 0]
    /\ eEv' = [eEv EXCEPT ![w] = EvRow(NoEventID, "", "", NoPayload, <<>>)]
    /\ UNCHANGED <<eCounter, eClock, eTicks, eVersion, eOut, eCalls>>

EvTick ==
    /\ eTicks < MaxTicks
    /\ eTicks' = eTicks + 1
    /\ eClock' = eClock + 1
    /\ UNCHANGED <<eRows, eCounter, ePc, eReq, eTmp, eEv, eLog, eVersion,
                   eOut, eCalls>>

EvTable == {eRows[i] : i \in 1..Len(eRows)}

NoEvOut == [op |-> "", thread |-> "", after |-> NoEventID, limit |-> 0,
            events |-> <<>>]

\* Store.List with no append in flight
ListCall(t, limit) ==
    /\ EvBusy = {}
    /\ \E s \in EventList(EvTable, t, limit) :
          eOut' = [op |-> "list", thread |-> t, after |-> NoEventID,
                   limit |-> limit, events |-> s]
    /\ UNCHANGED <<eRows, eCounter, eClock, eTicks, ePc, eReq, eTmp, eEv,
                   eLog, eVersion, eCalls>>

\* Server.listEvents: Store.Since with the id of a stored event
SinceCall(t, i, limit) ==
    /\ EvBusy = {}
    /\ i \in 1..Len(eRows)
    /\ \E s \in Since(EvTable, t, eRows[i].id, limit) :
          eOut' = [op |-> "since", thread |-> t, after |-> eRows[i].id,
                   limit |-> limit, events |-> s]
    /\ UNCHANGED <<eRows, eCounter, eClock, eTicks, ePc, eReq, eTmp, eEv,
                   eLog, eVersion, eCalls>>

TailThread == "T1"
TailLimits == {0, 1}

\* the ids of the thread's events in the order they were appended
AppendedIds(t) ==
    LET Mine(r) == r.thread_id = t
        mine == SelectSeq(eRows, Mine)
    IN [i \in 1..Len(mine) |-> mine[i].id]

\* one turn of the loop of tailCmd (part_007:320-354): the events after the
\* last id it has, which Server.listEvents answers with Store.Since; the id
\* of the last event of the answer is kept
TailPoll(limit) ==
    /\ EvBusy = {}
    /\ \E s \in Since(EvTable, TailThread, tlLast, limit) :
          LET waiting == Len(AppendedIds(TailThread)) - Len(tlSeen)
              due == IF limit > 0 /\ waiting > limit THEN limit ELSE waiting
          IN /\ tlSeen' = tlSeen \o [i \in 1..Len(s) |-> s[i].id]
             /\ tlLast' = IF s = <<>> THEN tlLast ELSE s[Len(s)].id
             /\ tlShort' = (tlShort \/ Len(s) < due)
    /\ UNCHANGED <<eRows, eCounter, eClock, eTicks, ePc, eReq, eTmp, eEv,
                   eLog, eVersion, eOut, eCalls>>

EventsIdle ==
    /\ tlLast = NoEventID
    /\ tlSeen = <<>>
    /\ tlShort = FALSE
    /\ eRows = <<>>
    /\ eCounter = 0
    /\ eClock = 0
    /\ eTicks = 0
    /\ ePc = [w \in EvWorkers |-> "idle"]
    /\ eReq = [w \in EvWorkers |-> NoEvReq]
    /\ eTmp = [w \in EvWorkers |-> 0]
    /\ eEv = [w \in EvWorkers |-> EvRow(NoEventID, "", "", NoPayload, <<>>)]
    /\ eLog = <<>>
    /\ eVersion = [t \in EvThreads |-> 1]
    /\ eOut = NoEvOut
    /\ eCalls = 0

\* the log of a server that has just started, at a whole second
EventsInit == EventsIdle

(***************************************************************************)
(* internal/proxy/proxy.go : handleHTTP, emit, isTextContent               *)
(*                                                                         *)
(* Header values, paths and queries are strings as sequences of bytes; a   *)
(* body is a sequence of bytes.                                            *)
(***************************************************************************)
\* the Content-Type headers of the upstream responses, the last one being
\* that of a response without the header
ContentTypes == <<
    <<"a", "p", "p", "l", "i", "c", "a", "t", "i", "o", "n", "/", "j", "s",
      "o", "n">>,
    <<"A", "P", "P", "L", "I", "C", "A", "T", "I", "O", "N", "/", "J", "S",
      "O", "N">>,
    <<"t", "e", "x", "t", "/", "h", "t", "m", "l">>,
    <<"a", "p", "p", "l", "i", "c", "a", "t", "i", "o", "n", "/", "x", "m",
      "l">>,
    <<"a", "p", "p", "l", "i", "c", "a", "t", "i", "o", "n", "/", "x", "-",
      "y", "a", "m", "l">>,
    <<"i", "m", "a", "g", "e", "/", "p", "n", "g">>,
    <<>>>>

\* a test of the content type that keeps the letter case
SameCaseContains(s, p) == Contains(s, p)

\* strings.Contains(strings.ToLower(ct), p)
LowerContains(s, p) == Contains(ToLower(s), p)

isTextContent(ct) ==
    \/ LowerContains(ct, <<"j", "s", "o", "n">>)
    \/ LowerContains(ct, <<"t", "e", "x", "t", "/">>)
    \/ LowerContains(ct, <<"x", "m", "l">>)
    \/ LowerContains(ct, <<"y", "a", "m", "l">>)

ResponseEvent(host, path, body, ct) ==
    [Host |-> host, Path |-> path, Body |-> body, ContentType |-> ct]

\* the Interceptor of the proxy command is built with its OnResponse set
OnResponseSet == TRUE

\* Interceptor.emit: the events OnResponse is called with
emit(host, path, query, body, ct) ==
    IF ~OnResponseSet \/ Len(body) = 0 \/ ~isTextContent(ct) THEN <<>>
    ELSE <<ResponseEvent(host,
                         IF query # <<>> THEN path \o <<"?">> \o query
                         ELSE path,
                         body, ct)>>

\* ---- the requests handleHTTP is called on ----
Methods   == {"GET", "POST", "HEAD"}
Bodies    == {<<>>, <<1>>, <<1, 2>>}
Queries   == {<<>>, <<"q">>}
Upstreams == {"ok", "do fails", "read fails"}

ProxyRequests ==
    [method : Methods, host : {"h1"}, path : {<<"/", "a">>},
     query : Queries, upstream : Upstreams,
     ct : {ContentTypes[i] : i \in DOMAIN ContentTypes}, body : Bodies]

NoProxyRequest ==
    [method |-> "", host |-> "", path |-> <<>>, query |-> <<>>,
     upstream |-> "", ct |-> <<>>, body |-> <<>>]

NoProxyResponse == [status |-> 0, body |-> <<>>]

ProxyIdle ==
    /\ xReq = NoProxyRequest
    /\ xCaptures = <<>>
    /\ xResp = NoProxyResponse
    /\ xPhase = "idle"

ProxyInit ==
    /\ xReq \in ProxyRequests
    /\ xCaptures = <<>>
    /\ xResp = NoProxyResponse
    /\ xPhase = "request"

\* Interceptor.handleHTTP: the request is forwarded, the body read, a GET
\* is handed to emit, and the response is copied to the client
handleHTTP ==
    /\ xPhase = "request"
    /\ IF xReq.upstream # "ok"
       THEN /\ xResp' = [status |-> 502, body |-> <<>>]
            /\ UNCHANGED xCaptures
       ELSE /\ xCaptures' =
                  IF xReq.method = "GET"
                  THEN xCaptures \o emit(xReq.host, xReq.path, xReq.query,
                                         xReq.body, xReq.ct)
                  ELSE xCaptures
            /\ xResp' = [status |-> 200, body |-> xReq.body]
    /\ xPhase' = "done"
    /\ UNCHANGED xReq


(***************************************************************************)
(* internal/proxy/proxy.go : handleCONNECT, CA.CertForHost                 *)
(*                                                                         *)
(* Every CONNECT request is served by a handler of its own.  A client      *)
(* connection on which a write failed is broken: the TLS handshake on it   *)
(* fails.  A certificate is the number of the mint that made it.           *)
(***************************************************************************)
MaxTunnels == 2      \* CONNECT requests in one behaviour
MaxServed  == 2      \* requests read from the tunnels in one behaviour

Conns == {"c1", "c2"}
Hosts == {"h1", "h2"}

\* a mutex that every caller gets at once
AlwaysFree(holder) == TRUE

\* ca.mu.Lock() returns when no handler holds the mutex
CanLock(holder) == holder = ""

\* the deferred clientConn.Close()
LeaveOpen(conn) == conn
CloseOnReturn(conn) == "closed"

TunnelRequests ==
    [method : {"GET", "POST"}, ct : {ContentTypes[1], ContentTypes[6]},
     body : {<<1>>}]

ServeOutcomes ==
    {"ok", "read fails", "round trip fails", "body fails", "write fails"}

\* the handler returns: the deferred calls close the client connection
Return(c, phase) ==
    /\ tPc' = [tPc EXCEPT ![c] = "returned"]
    /\ tConn' = [tConn EXCEPT ![c] = CloseOnReturn(tConn[c])]
    /\ tErr' = [tErr EXCEPT ![c] = phase]

\* handleCONNECT (proxy.go:73-86): the connection is hijacked, or the handler
\* returns and leaves it to the HTTP server
Connect(c, host, hijacked) ==
    /\ tPc[c] \in {"idle", "returned", "refused"}
    /\ tStarted < MaxTunnels
    /\ tStarted' = tStarted + 1
    /\ tHost' = [tHost EXCEPT ![c] = host]
    /\ tTLS' = [tTLS EXCEPT ![c] = FALSE]
    /\ tErr' = [tErr EXCEPT ![c] = ""]
    /\ tAckFailed' = [tAckFailed EXCEPT ![c] = FALSE]
    /\ tCaptured' = [tCaptured EXCEPT ![c] = 0]
    /\ IF hijacked
       THEN /\ tPc' = [tPc EXCEPT ![c] = "ack"]
            /\ tConn' = [tConn EXCEPT ![c] = "open"]
       ELSE /\ tPc' = [tPc EXCEPT ![c] = "refused"]
            /\ tConn' = [tConn EXCEPT ![c] = "server"]
    /\ UNCHANGED <<caMu, caCache, caLog, tCaptures, tServed>>

\* the "200 Connection Established" line is written; the result of Write is
\* not looked at
Ack(c, written) ==
    /\ tPc[c] = "ack"
    /\ tPc' = [tPc EXCEPT ![c] = "lock"]
    /\ tConn' = [tConn EXCEPT ![c] = IF written THEN @ ELSE "broken"]
    /\ tAckFailed' = [tAckFailed EXCEPT ![c] = ~written]
    /\ UNCHANGED <<tHost, tTLS, tErr, tCaptured, caMu, caCache, caLog,
                   tCaptures, tServed, tStarted>>

\* CertForHost: ca.mu.Lock()
CertLock(c) ==
    /\ tPc[c] = "lock"
    /\ CanLock(caMu)
    /\ caMu' = c
    /\ tPc' = [tPc EXCEPT ![c] = "lookup"]
    /\ UNCHANGED <<tConn, tHost, tTLS, tErr, tAckFailed, tCaptured, caCache,
                   caLog, tCaptures, tServed, tStarted>>

CaEntry(op, c, cert) ==
    [op |-> op, by |-> c, host |-> tHost[c], cert |-> cert,
     held |-> caMu = c]

\* CertForHost: the cache is read; a cached certificate is returned and the
\* mutex unlocked
CertLookup(c) ==
    /\ tPc[c] = "lookup"
    /\ IF caCache[tHost[c]] # 0
       THEN /\ caLog' = caLog \o <<CaEntry("read", c, caCache[tHost[c]]),
                                   CaEntry("return", c, caCache[tHost[c]])>>
            /\ caMu' = IF caMu = c THEN "" ELSE caMu
            /\ tPc' = [tPc EXCEPT ![c] = "handshake"]
       ELSE /\ caLog' = Append(caLog, CaEntry("read", c, 0))
            /\ tPc' = [tPc EXCEPT ![c] = "mint"]
            /\ UNCHANGED caMu
    /\ UNCHANGED <<tConn, tHost, tTLS, tErr, tAckFailed, tCaptured, caCache,
                   tCaptures, tServed, tStarted>>

Mints == {k \in 1..Len(caLog) : caLog[k].op = "write"}

\* CertForHost: a key and a certificate are made and the certificate is put
\* into the cache, or making them fails; the mutex is unlocked; after a
\* failure handleCONNECT returns
CertMint(c, made) ==
    /\ tPc[c] = "mint"
    /\ caMu' = IF caMu = c THEN "" ELSE caMu
    /\ IF made
       THEN LET cert == Cardinality(Mints) + 1
            IN /\ caCache' = [caCache EXCEPT ![tHost[c]] = cert]
               /\ caLog' = caLog \o <<CaEntry("write", c, cert),
                                      CaEntry("return", c, cert)>>
               /\ tPc' = [tPc EXCEPT ![c] = "handshake"]
               /\ UNCHANGED <<tConn, tErr>>
       ELSE /\ Return(c, "cert")
            /\ UNCHANGED <<caCache, caLog>>
    /\ UNCHANGED <<tHost, tTLS, tAckFailed, tCaptured, tCaptures, tServed,
                   tStarted>>

\* tls.Server(clientConn, ...).Handshake()
Handshake(c, done) ==
    /\ tPc[c] = "handshake"
    /\ IF done /\ tConn[c] = "open"
       THEN /\ tTLS' = [tTLS EXCEPT ![c] = TRUE]
            /\ tPc' = [tPc EXCEPT ![c] = "serving"]
            /\ UNCHANGED <<tConn, tErr>>
       ELSE /\ Return(c, "handshake")
            /\ UNCHANGED tTLS
    /\ UNCHANGED <<tHost, tAckFailed, tCaptured, caMu, caCache, caLog,
                   tCaptures, tServed, tStarted>>

\* one turn of the loop of handleCONNECT (proxy.go:119-148)
Serve(c, req, outcome) ==
    /\ tPc[c] = "serving"
    /\ tServed < MaxServed
    /\ tServed' = tServed + 1
    /\ LET emitted == IF /\ outcome \in {"ok", "write fails"}
                        /\ req.method = "GET"
                     THEN emit(tHost[c], <<"/">>, <<>>, req.body, req.ct)
                     ELSE <<>>
       IN /\ tCaptures' = tCaptures \o [i \in 1..Len(emitted) |->
                                           [conn |-> c, event |-> emitted[i]]]
          /\ tCaptured' = [tCaptured EXCEPT ![c] = @ + Len(emitted)]
    /\ IF outcome = "ok"
       THEN UNCHANGED <<tPc, tConn, tErr>>
       ELSE Return(c, "serving")
    /\ UNCHANGED <<tHost, tTLS, tAckFailed, caMu, caCache, caLog, tStarted>>

TunnelInit ==
    /\ tPc = [c \in Conns |-> "idle"]
    /\ tConn = [c \in Conns |-> "server"]
    /\ tHost = [c \in Conns |-> ""]
    /\ tTLS = [c \in Conns |-> FALSE]
    /\ tErr = [c \in Conns |-> ""]
    /\ tAckFailed = [c \in Conns |-> FALSE]
    /\ tCaptured = [c \in Conns |-> 0]
    /\ caMu = ""
    /\ caCache = [h \in Hosts \cup {""} |-> 0]
    /\ caLog = <<>>
    /\ tCaptures = <<>>
    /\ tServed = 0
    /\ tStarted = 0

(***************************************************************************)
(* internal/local/engine.go : Open, Engine.Close                           *)
(* internal/lock : Acquire, FileLock.Release                               *)
(*                                                                         *)
(* Workers open the engine on one base directory, write with it and close  *)
(* it, as the workers of TestConcurrentLocalEngineAccess do.  The kernel   *)
(* keeps the set of open file descriptions that hold the flock on          *)
(* relay.lock; every Acquire opens a description of its own.               *)
(***************************************************************************)
MaxIterations == 2   \* iterations of one worker

LockWorkers == {"w1", "w2"}

\* an unlock that leaves the lock with its holder
StillLocked(holders, w) == holders

\* flock(LOCK_UN), and the close of the descriptor when LOCK_UN fails: both
\* take the lock from the description
Unlocked(holders, w) == holders \ {w}

\* flock(LOCK_EX) returns when no description holds the lock
CanFlock(holders) == holders = {}

\* Open or the worker returns with an error: the worker stops
Fail(w, err) ==
    /\ lkPc' = [lkPc EXCEPT ![w] = "stopped"]
    /\ lkErr' = [lkErr EXCEPT ![w] = err]

\* FileLock.Release (lock.go:26-35): the lock is given up and the file
\* closed, whether LOCK_UN fails or not
Release(w) ==
    /\ lkHolders' = Unlocked(lkHolders, w)
    /\ lkFile' = [lkFile EXCEPT ![w] = FALSE]

\* Engine.Close (engine.go:81-89)
EngineClose(w) ==
    /\ lkDbOpen' = [lkDbOpen EXCEPT ![w] = FALSE]
    /\ Release(w)

\* Open (engine.go:37-44): the base directory is made
OpenStart(w, made) ==
    /\ lkPc[w] = "idle"
    /\ lkIter[w] < MaxIterations
    /\ lkAcquired' = [lkAcquired EXCEPT ![w] = 0]
    /\ IF made
       THEN lkPc' = [lkPc EXCEPT ![w] = "acquire"] /\ UNCHANGED lkErr
       ELSE Fail(w, "mkdir")
    /\ UNCHANGED <<lkHolders, lkFile, lkDbOpen, lkDb, lkIter>>

\* lock.Acquire (lock.go:14-24): the lock file is opened and flock waits for
\* the lock; when the file cannot be opened or flock fails, Open returns the
\* error with the file closed
Acquire(w, opened, locked) ==
    /\ lkPc[w] = "acquire"
    /\ IF opened /\ locked
       THEN /\ CanFlock(lkHolders)
            /\ lkHolders' = lkHolders \cup {w}
            /\ lkFile' = [lkFile EXCEPT ![w] = TRUE]
            /\ lkAcquired' = [lkAcquired EXCEPT ![w] = @ + 1]
            /\ lkPc' = [lkPc EXCEPT ![w] = "opendb"]
            /\ UNCHANGED lkErr
       ELSE /\ Fail(w, IF opened THEN "flock" ELSE "open lock file")
            /\ UNCHANGED <<lkHolders, lkFile, lkAcquired>>
    /\ UNCHANGED <<lkDbOpen, lkDb, lkIter>>

\* Open (engine.go:49-53): storage.OpenDB; on an error the lock is released
OpenDB(w, opened) ==
    /\ lkPc[w] = "opendb"
    /\ IF opened
       THEN /\ lkDbOpen' = [lkDbOpen EXCEPT ![w] = TRUE]
            /\ lkPc' = [lkPc EXCEPT ![w] = "init"]
            /\ UNCHANGED <<lkHolders, lkFile, lkErr>>
       ELSE /\ Release(w)
            /\ Fail(w, "open db")
            /\ UNCHANGED lkDbOpen
    /\ UNCHANGED <<lkAcquired, lkDb, lkIter>>

\* Open (engine.go:55-78): the stores are initialised; on an error the engine
\* is closed
InitStores(w, done) ==
    /\ lkPc[w] = "init"
    /\ IF done
       THEN /\ lkPc' = [lkPc EXCEPT ![w] = "open"]
            /\ UNCHANGED <<lkHolders, lkFile, lkDbOpen, lkErr>>
       ELSE /\ EngineClose(w)
            /\ Fail(w, "init")
    /\ UNCHANGED <<lkAcquired, lkDb, lkIter>>

\* the worker's CreateThread, ArtifactPut and PatchState (part_004:39-64);
\* on an error the worker closes the engine and stops
Use(w, done) ==
    /\ lkPc[w] = "open"
    /\ IF done
       THEN /\ lkDb' = lkDb \cup {<<w, lkIter[w]>>}
            /\ lkPc' = [lkPc EXCEPT ![w] = "used"]
            /\ UNCHANGED <<lkHolders, lkFile, lkDbOpen, lkErr>>
       ELSE /\ EngineClose(w)
            /\ Fail(w, "use")
            /\ UNCHANGED lkDb
    /\ UNCHANGED <<lkAcquired, lkIter>>

\* the worker's eng.Close() (part_004:66-69); when Release returns the error
\* of LOCK_UN or of the close, the worker stops
Close(w, released) ==
    /\ lkPc[w] = "used"
    /\ EngineClose(w)
    /\ IF released
       THEN /\ lkPc' = [lkPc EXCEPT ![w] = "idle"]
            /\ lkIter' = [lkIter EXCEPT ![w] = @ + 1]
            /\ UNCHANGED lkErr
       ELSE /\ Fail(w, "close")
            /\ UNCHANGED lkIter
    /\ UNCHANGED <<lkAcquired, lkDb>>

LockInit ==
    /\ lkPc = [w \in LockWorkers |-> "idle"]
    /\ lkErr = [w \in LockWorkers |-> ""]
    /\ lkHolders = {}
    /\ lkFile = [w \in LockWorkers |-> FALSE]
    /\ lkDbOpen = [w \in LockWorkers |-> FALSE]
    /\ lkAcquired = [w \in LockWorkers |-> 0]
    /\ lkDb = {}
    /\ lkIter = [w \in LockWorkers |-> 0]

(***************************************************************************)
(* internal/state/schema.go : ApplyPatch on one state                      *)
(***************************************************************************)
ApplyLists(f) ==
    CASE f = "facts" -> {<<>>, <<Item("f0", "")>>,
                         <<Item("f0", ""), Item("f9", "")>>}
      [] f = "artifacts" -> {<<>>, <<Item("", "r0")>>}
      [] OTHER -> {<<>>, <<Item("act", "r0")>>}

ApplyStates ==
    {MkState(1, "T1", fs, as, la) :
        fs \in ApplyLists("facts"), as \in ApplyLists("artifacts"),
        la \in ApplyLists("last_actions")}

ApplyValues ==
    {JObj("n", "r1"), JNull, JArr(<<>>),
     JArr(<<JObj("n", "r1"), JObj("m", "")>>), JNum(7)}

SingleOps ==
    {PatchOp(o, p, v) :
        o \in {"add", "replace"},
        p \in {PAppend(f) : f \in ListFields} \cup
              {PField(f) : f \in ListFields},
        v \in ApplyValues}
    \cup {PatchOp("remove", PField(f), JNull) : f \in ListFields}
    \cup {PatchOp("test", PField("facts"), JNull)}

PairOps ==
    {PatchOp("add", PAppend("facts"), JObj("n", "r1")),
     PatchOp("add", PAppend("facts"), JObj("m", "")),
     PatchOp("replace", PField("facts"), JArr(<<>>)),
     PatchOp("add", PAppend("artifacts"), JObj("", "r1")),
     PatchOp("remove", PField("facts"), JNull)}

ApplyBatches ==
    {<<o>> : o \in SingleOps} \cup {<<a, b>> : a, b \in PairOps}

NoApply == [ok |-> FALSE, st |-> NoState]

ApplyIdle == apSt = NoState /\ apOps = <<>> /\ apOut = NoApply /\ apPhase = "off"

ApplyInit ==
    /\ apSt \in ApplyStates
    /\ apOps \in ApplyBatches
    /\ apOut = NoApply
    /\ apPhase = "in"

\* one call of ApplyPatch
ApplyCall ==
    /\ apPhase = "in"
    /\ apOut' = ApplyPatch(apSt, apOps)
    /\ apPhase' = "out"
    /\ UNCHANGED <<apSt, apOps>>

(***************************************************************************)
(* Properties of the cache                                                 *)
(***************************************************************************)
\* call i is a get that found a row whose expiry time had passed
ExpiredGet(i) ==
    /\ ilog[i].op = "get"
    /\ ilog[i].set # 0
    /\ ilog[i].at > ilog[i].expires_at

\* C10: a get that finds a row whose expiry time has passed returns a miss
\* and removes the row, and the key is a miss on every later get until a new
\* set is made for it.
C10_ExpiredRowMissesAndIsRemoved ==
    \A i \in 1..Len(ilog) :
        ExpiredGet(i) =>
            /\ ~ilog[i].hit
            /\ gen[ilog[i].key] = ilog[i].sets => cache[ilog[i].key] = NoRow
            /\ \A j \in (i + 1)..Len(ilog) :
                   (/\ ilog[j].op = "get"
                    /\ ilog[j].key = ilog[i].key
                    /\ ilog[j].after >= i
                    /\ ilog[j].sets = ilog[i].sets) => ~ilog[j].hit

\* a get found an expired row, and the next get for the key, with no set in
\* between, found no row
C10_ExpiredThenGone ==
    \E i \in 1..Len(ilog) : \E j \in (i + 1)..Len(ilog) :
        /\ ExpiredGet(i)
        /\ ~ilog[i].hit
        /\ ilog[j].op = "get"
        /\ ilog[j].key = ilog[i].key
        /\ ilog[j].after >= i
        /\ ilog[j].sets = ilog[i].sets
        /\ ilog[j].set = 0
        /\ ~ilog[j].hit

\* call i is a get that returned the entry written by Set number n
HitOn(i, n) == ilog[i].op = "get" /\ ilog[i].hit /\ ilog[i].set = n

\* C11: the hits on one entry return the counts 1, 2, ..., k: no two of them
\* return the same count, also when they run concurrently, and the k-th to
\* complete of hits made one after another returns k.
C11_HitCountsDistinct ==
    \A i \in 1..Len(ilog) :
        (ilog[i].op = "get" /\ ilog[i].hit) =>
            /\ \A j \in 1..Len(ilog) :
                   (j # i /\ ilog[j].key = ilog[i].key /\ HitOn(j, ilog[i].set))
                       => ilog[j].hit_count # ilog[i].hit_count
            /\ ~ilog[i].overlap =>
                   ilog[i].hit_count >=
                       Cardinality({j \in 1..i :
                                       /\ ilog[j].key = ilog[i].key
                                       /\ HitOn(j, ilog[i].set)})

\* the calls 1..i ran one after another
SequentialUpTo(i) == \A k \in 1..i : ~ilog[k].overlap

\* the Set calls made for the key of call i before it
SetsBefore(i) ==
    {m \in 1..(i - 1) : ilog[m].op = "set" /\ ilog[m].key = ilog[i].key}

\* the most recent of them
LastSet(i) == CHOOSE m \in SetsBefore(i) : \A k \in SetsBefore(i) : k <= m

\* the key of call i was set, and since its most recent set it was not
\* invalidated and the expiry time stored by that set has not passed
LiveAt(i) ==
    /\ SetsBefore(i) # {}
    /\ \A k \in (LastSet(i) + 1)..(i - 1) :
          ~(ilog[k].op = "invalidate" /\ ilog[k].key = ilog[i].key)
    /\ ilog[i].at <= ilog[LastSet(i)].expires_at

FirstSuccess(i) ==
    /\ ilog[i].op = "invoke"
    /\ ~ilog[i].overlap
    /\ ilog[i].res = "ok"
    /\ \A k \in 1..(i - 1) :
          ~(ilog[k].op = "invoke" /\ ilog[k].key = ilog[i].key)

\* call j is a later invocation with the inputs of call i, the calls from i
\* to j ran one after another, and the key was not invalidated in between
LaterSame(i, j) ==
    /\ i < j
    /\ ilog[j].op = "invoke"
    /\ ilog[j].key = ilog[i].key
    /\ \A m \in i..j : ~ilog[m].overlap
    /\ \A m \in (i + 1)..(j - 1) :
          ~(ilog[m].op = "invalidate" /\ ilog[m].key = ilog[i].key)

\* call j returned the result of call i from the cache
HitOf(i, j) ==
    /\ ilog[j].res = "ok"
    /\ ilog[j].hit
    /\ ilog[j].preview = ilog[i].preview
    /\ ilog[j].artifact_ref = ilog[i].artifact_ref
    /\ ilog[j].run = 0

C14_HopCountWithinMax ==
    /\ \A t \in InvokeThreads : hop[t] <= DefaultMaxHops
    /\ \A i \in 1..Len(ilog) :
          (ilog[i].op = "invoke" /\ ilog[i].res = "429") =>
              (ilog[i].hopBefore >= DefaultMaxHops /\ ilog[i].run = 0)

(***************************************************************************)
(* Properties of the artifact store                                        *)
(***************************************************************************)
\* newRef has returned a fresh ref on every call so far
NoRefReused == \A i \in 1..Len(aLog) : ~aLog[i].existed

\* C15: for every artifact put successfully with content C, Open followed by
\* a read returns exactly C, the recorded size is the length of C and the
\* recorded hash is the SHA-256 of the bytes on disk.
C15_PutRoundTrips ==
    \A i \in 1..Len(aLog) :
        aLog[i].res = "ok" =>
            LET o   == Open(aLog[i].thread, aLog[i].ref)
                art == ArtGet(aLog[i].thread, aLog[i].ref)
            IN /\ o.ok
               /\ o.content = aLog[i].content
               /\ art.size = Len(aLog[i].content)
               /\ art.hash = SHA256(aFiles[art.path])

\* C16: after every completed Put, successful or failed, no temporary file
\* is left and an artifact file exists exactly when a metadata row names it
\* (the refs being fresh on every call).
C16_FileIffRow ==
    NoRefReused =>
        \A p \in Paths :
            IF p.tmp THEN aFiles[p] = NoFile
            ELSE aFiles[p] # NoFile <=>
                     \E ref \in NewRefs : aRows[ref].path = p

\* C17: the ref of a successful Put had no row in the store before, and a Put
\* whose ref has one fails and leaves that row and its content as they were.
C17_PutNeverReusesRef ==
    \A i \in 1..Len(aLog) :
        aLog[i].existed =>
            /\ aLog[i].res = "err"
            /\ i = Len(aLog) =>
                  /\ aRows[aLog[i].ref] = aLog[i].before.row
                  /\ aFiles[aLog[i].before.row.path] = aLog[i].before.file

(***************************************************************************)
(* Properties of the previews                                              *)
(***************************************************************************)
\* generatePreview has returned for a textual artifact: a type other than
\* binary and a content that is valid UTF-8
TextualDone == pPhase = "done" /\ pType # "binary" /\ Valid(pContent)

\* C18: for every pattern the content contains, in whatever letter case and
\* however many times, the preview text contains no occurrence of the
\* pattern in any letter case, and the marker [SANITIZED] stands in its place.
C18_NoPatternLeft ==
    TextualDone =>
        \A k \in DOMAIN dangerous :
            Contains(ToLower(pContent), ToLower(dangerous[k])) =>
                /\ ~Contains(ToLower(pOut.text), ToLower(dangerous[k]))
                /\ ~pOut.truncated => Contains(pOut.text, Marker)

\* C19: the preview text of a textual artifact has at most MaxPreviewBytes
\* bytes, it is marked truncated exactly when the sanitized content has more,
\* a truncated text ends with a line break and three dots, and a text that
\* is not truncated is the whole sanitized content.
C19_PreviewWithinCap ==
    TextualDone =>
        LET whole == sanitizePreview(pContent)
        IN /\ Len(pOut.text) <= MaxPreviewBytes
           /\ pOut.truncated <=> Len(whole) > MaxPreviewBytes
           /\ pOut.truncated => LastN(pOut.text, Len(ellipsis)) = ellipsis
           /\ ~pOut.truncated => pOut.text = whole

\* a content within the cap whose sanitized form is over it, cut at its last
\* line break
C19_CutOnLineBreak ==
    /\ TextualDone
    /\ Len(pContent) <= MaxPreviewBytes
    /\ pOut.truncated
    /\ Len(pOut.text) < MaxPreviewBytes - Len(ellipsis)

(***************************************************************************)
(* Properties of the prompt bundle                                         *)
(***************************************************************************)
\* the caps of a prompt bundle
WithinCaps(b) ==
    /\ HeaderBytes(b.state_header) <= RpbMaxHeaderBytes
    /\ Len(b.previews) <= MaxPreviews
    /\ \A i \in 1..Len(b.previews) :
          Len(b.previews[i].excerpt) <= RpbMaxPreviewBytes

\* BuildRPB has returned
Built == bPhase \in {"done", "twice"}

\* the bundles that may be assembled for the call, before validation
Assembled ==
    IF bIn.known
    THEN {Assemble(bIn.model, bIn.user, bIn.state, listed) :
             listed \in ListOrders(bIn.arts)}
    ELSE {Assemble(bIn.model, bIn.user, NoHState, <<>>)}

\* C20: every bundle BuildRPB returns has a state header of at most 2048
\* serialized bytes, at most 10 previews and excerpts of at most 2048 bytes
\* each; when the assembled bundle exceeds a cap, BuildRPB returns an error
\* and no bundle.
C20_BundleWithinCapsOrError ==
    Built =>
        /\ bOut.err = "" => WithinCaps(bOut.bundle)
        /\ (\E b \in Assembled : ~WithinCaps(b)) =>
               (bOut.err # "" /\ bOut.bundle = NoBundle)

\* a thread whose header is over the cap: BuildRPB failed on it
C20_OversizedHeaderRejected ==
    /\ Built
    /\ bIn.known
    /\ TrimSpace(bIn.user) # <<>>
    /\ HeaderBytes(Header(bIn.state)) > RpbMaxHeaderBytes
    /\ bOut.err = "state_header"

\* the artifacts of the bundle are the newest first, those of one second by
\* ascending ref
OrderedRefs(b) ==
    \A i, j \in 1..Len(b.artifact_refs) :
        i < j =>
            \E x, y \in bIn.arts :
                /\ x.ref = b.artifact_refs[i]
                /\ y.ref = b.artifact_refs[j]
                /\ \/ x.created_at > y.created_at
                   \/ x.created_at = y.created_at /\ x.ref < y.ref

\* C21: two calls of BuildRPB on an existing thread whose state and artifacts
\* did not change, with the same model and texts, return the same bundle,
\* in whatever order the store listed the artifacts, and the artifacts of the
\* bundle are ordered by creation time descending, then ref ascending.
C21_SameInputsSameBundle ==
    (bPhase = "twice" /\ bIn.known) =>
        /\ bOut = bPrev
        /\ OrderedRefs(bOut.bundle)

\* two bundles built of a thread with artifacts created in the same second
C21_BuiltTwiceWithTies ==
    /\ bPhase = "twice"
    /\ bIn.known
    /\ bOut.err = ""
    /\ Len(bOut.bundle.previews) = MaxPreviews
    /\ \E x, y \in bIn.arts : x.ref # y.ref /\ x.created_at = y.created_at

(***************************************************************************)
(* Properties of the event log                                             *)
(***************************************************************************)
\* time.Parse(time.RFC3339Nano, ts): the time a stored text stands for
ParseNano(ts) ==
    (ts[1] - 48) * 100 + (ts[2] - 48) * 10 + (IF Len(ts) > 3 THEN ts[4] - 48 ELSE 0)

PatchEvents(t) ==
    {k \in 1..Len(eRows) :
        eRows[k].thread_id = t /\ eRows[k].type = "state.patch.applied"}

\* C22: every successful patch of a thread has exactly one state.patch.applied
\* event in the thread's log, carrying its number of ops and its new version,
\* and the log has no such event for a patch that failed.
C22_PatchHasOneEvent ==
    /\ \A i \in 1..Len(eLog) :
          (eLog[i].op = "patch" /\ eLog[i].res = "ok") =>
              Cardinality({k \in PatchEvents(eLog[i].thread) :
                  eRows[k].payload =
                      PatchPayload(eLog[i].ops, eLog[i].version)}) = 1
    /\ \A t \in EvThreads : Cardinality(PatchEvents(t)) <= eVersion[t] - 1

\* the position of the row with the id in the table, in insertion order
RowOf(id) == CHOOSE k \in 1..Len(eRows) : eRows[k].id = id

\* the event with the id was appended with no other append in flight
AppendedAlone(id) ==
    \E k \in 1..Len(eLog) :
        /\ eLog[k].op = "append" /\ eLog[k].res = "ok"
        /\ eLog[k].id = id /\ eLog[k].alone

\* C23: List returns the events of a thread by ascending timestamp, those of
\* one timestamp by ascending counter, and events appended one after another
\* in the order they were appended.
C23_ListedInAppendOrder ==
    (eOut.op = "list" /\ eOut.limit = 0) =>
        \A i, j \in 1..Len(eOut.events) :
            i < j =>
                LET a == eOut.events[i]
                    b == eOut.events[j]
                IN /\ ParseNano(a.timestamp) <= ParseNano(b.timestamp)
                   /\ a.timestamp = b.timestamp => a.id.n < b.id.n
                   /\ (AppendedAlone(a.id) /\ AppendedAlone(b.id)) =>
                          RowOf(a.id) < RowOf(b.id)

\* C24: Since returns only events of the thread whose timestamp is strictly
\* newer than that of the event after_id, by ascending time and at most limit
\* of them, and never the event after_id or an older one.
C24_SinceStrictlyNewer ==
    eOut.op = "since" =>
        LET after == eRows[RowOf(eOut.after)]
        IN /\ eOut.limit > 0 => Len(eOut.events) <= eOut.limit
           /\ \A i \in 1..Len(eOut.events) :
                 /\ eOut.events[i].thread_id = eOut.thread
                 /\ eOut.events[i].id # eOut.after
                 /\ ParseNano(eOut.events[i].timestamp)
                        > ParseNano(after.timestamp)
           /\ \A i, j \in 1..Len(eOut.events) :
                 i < j => ParseNano(eOut.events[i].timestamp)
                              <= ParseNano(eOut.events[j].timestamp)

\* C25: concurrent appends obtain distinct counter values, and no append
\* fails because its id is taken.
C25_DistinctEventIds ==
    /\ \A k \in 1..Len(eLog) : eLog[k].op = "append" => eLog[k].res = "ok"
    /\ \A i, j \in 1..Len(eRows) : i # j => eRows[i].id.n # eRows[j].id.n

(***************************************************************************)
(* Properties of the proxy                                                 *)
(***************************************************************************)
\* the content types of the model that contain json, text/, xml or yaml in
\* some letter case
TextualTypes == {ContentTypes[i] : i \in 1..5}

TunnelState(pcs, c) ==
    CASE pcs[c] \in {"idle", "refused"} -> "Idle"
      [] pcs[c] = "ack" -> "HandshakeAck"
      [] pcs[c] \in {"lock", "lookup", "mint", "handshake"} -> "TLSHandshake"
      [] pcs[c] = "serving" -> "ServingRequests"
      [] OTHER -> "Closed"

TunnelMoves ==
    {<<"Idle", "HandshakeAck">>, <<"HandshakeAck", "TLSHandshake">>,
     <<"TLSHandshake", "ServingRequests">>, <<"TLSHandshake", "Closed">>,
     <<"ServingRequests", "Closed">>,
     \* the connection is used for a new CONNECT
     <<"Closed", "HandshakeAck">>, <<"Closed", "Idle">>}

TunnelSafe ==
    \A c \in Conns :
        \* no capture unless the TLS handshake has succeeded
        /\ tCaptured[c] > 0 => tTLS[c]
        \* an error before serving: no capture
        /\ (tAckFailed[c] \/ tErr[c] \in {"cert", "handshake"}) =>
               tCaptured[c] = 0
        /\ tAckFailed[c] => tPc[c] # "serving"
        \* the handler has returned: the client connection is closed
        /\ tPc[c] = "returned" => (tConn[c] = "closed" /\ tErr[c] # "")
        /\ tErr[c] # "" => tPc[c] = "returned"

C29_CertCacheUnderLock ==
    /\ \A k \in 1..Len(caLog) : caLog[k].held
    /\ \A i, j \in Mints : caLog[i].host = caLog[j].host => i = j
    /\ \A i, j \in 1..Len(caLog) :
          (/\ caLog[i].op = "return" /\ caLog[j].op = "return"
           /\ caLog[i].host = caLog[j].host) => caLog[i].cert = caLog[j].cert

\* two handlers got the certificate of one hostname, one by minting it and
\* the other from the cache
C29_MintedOnceReturnedTwice ==
    \E i, j \in 1..Len(caLog) :
        /\ caLog[i].op = "return" /\ caLog[j].op = "return"
        /\ caLog[i].by # caLog[j].by
        /\ caLog[i].host = caLog[j].host
        /\ Cardinality({k \in Mints : caLog[k].host = caLog[i].host}) = 1

\* the worker has the lock inside Open or holds an open engine
InEngine(w) == lkPc[w] \in {"opendb", "init", "open", "used"}

LockSafe ==
    /\ Cardinality(lkHolders) <= 1
    /\ \A w \in LockWorkers :
          /\ InEngine(w) => (w \in lkHolders /\ lkAcquired[w] = 1)
          /\ lkAcquired[w] <= 1
          \* outside Open and the engine: no lock, no lock file, no database
          /\ ~InEngine(w) =>
                (w \notin lkHolders /\ ~lkFile[w] /\ ~lkDbOpen[w])
          \* the writes of the iterations the worker finished are there
          /\ \A i \in 0..(lkIter[w] - 1) : <<w, i>> \in lkDb

AllIterationsDone ==
    \A w \in LockWorkers : lkIter[w] = MaxIterations /\ lkPc[w] = "idle"

\* C30: every successful capability result and every cache entry made from
\* one carries a non-empty artifact_ref naming an artifact that is in the
\* artifact store; a handler whose artifact write failed reports no success.
C30_ResultCarriesArtifact ==
    /\ \A k \in 1..Len(ilog) :
          (ilog[k].op = "invoke" /\ ilog[k].res = "ok") =>
              ilog[k].artifact_ref \in iArts
    /\ \A key \in CacheKeys :
          cache[key] # NoRow => cache[key].artifact_ref \in iArts

\* C31: get returns the state with the highest persisted version of the
\* thread and none when the thread has no row, and once a patch on a thread
\* has returned a version, a get on the thread returns at least that version.
C31_GetAtLeastReturnedVersion ==
    /\ \A t \in Threads :
          IF ThreadRows(t) = {} THEN Get(t) = NoState
          ELSE \A r \in ThreadRows(t) : r.version <= Get(t).version
    /\ \A i \in 1..Len(hist) :
          hist[i].res = "ok" =>
              Get(hist[i].thread).version >= hist[i].ret.version

\* C37: the INSERT OR REPLACE of a patch on thread T writes a row of thread
\* T only, whatever the ops are, and leaves the rows of every other thread
\* as they were.
C37_PatchWritesOwnThreadOnly ==
    [][\A w \in Workers :
          (pc[w] = "put" /\ pc'[w] = "file") =>
              /\ \A r \in rows' \ rows : r.thread_id = wThread[w]
              /\ \A t \in Threads \ {wThread[w]} :
                    {r \in rows' : r.thread_id = t} = ThreadRows(t)
      ]_vars

\* the top-level fields the ops of a batch name
Named(ops) ==
    {ops[i].path[2] : i \in {k \in 1..Len(ops) : Len(ops[k].path) >= 2}}

\* a JSON value as an element of a list field
Decoded(v) == Item(v.d, v.r)

DecodedList(v) == [i \in 1..Len(v.a) |-> Decoded(v.a[i])]

Applied == apPhase = "out" /\ apOut.ok

\* C32: a successful add or replace with path /<field>/- leaves the field's
\* sequence as the old one with the value as its new last element, with path
\* /<field> it sets the field to the given value, and every list field no op
\* of the patch names is the same in the next version.
C32_AppendSetAndFrame ==
    Applied =>
        /\ \A f \in ListFields \ Named(apOps) : apOut.st[f] = apSt[f]
        /\ \A f \in ListFields :
              /\ (Len(apOps) = 1 /\ apOps[1].op \in {"add", "replace"}
                    /\ apOps[1].path = PAppend(f)) =>
                     apOut.st[f] = Append(apSt[f], Decoded(apOps[1].value))
              /\ (Len(apOps) = 1 /\ apOps[1].op \in {"add", "replace"}
                    /\ apOps[1].path = PField(f)) =>
                     apOut.st[f] = DecodedList(apOps[1].value)
              /\ (Len(apOps) = 2 /\ apOps[1].path = PAppend(f)
                    /\ apOps[2].path = PAppend(f)) =>
                     apOut.st[f] = apSt[f] \o <<Decoded(apOps[1].value),
                                                Decoded(apOps[2].value)>>

\* a value was appended to two facts and the other lists were not empty
C32_AppendedToTwoFacts ==
    /\ Applied
    /\ apOps = <<PatchOp("add", PAppend("facts"), JObj("n", "r1"))>>
    /\ Len(apSt.facts) = 2
    /\ Len(apOut.st.facts) = 3
    /\ apSt.artifacts # <<>>

\* the newest up to n elements, the first up to n elements, and the first
\* up to n of the elements whose status is in ok, each in the list's order
Newest(xs, n) ==
    LET k == IF Len(xs) < n THEN Len(xs) ELSE n
    IN [i \in 1..k |-> xs[Len(xs) - k + i]]

Oldest(xs, n) ==
    LET k == IF Len(xs) < n THEN Len(xs) ELSE n IN [i \in 1..k |-> xs[i]]

OldestWith(xs, ok, n) ==
    LET Kept(x) == x.status \in ok IN Oldest(SelectSeq(xs, Kept), n)

\* C33: before the byte cap the header holds the newest up to 10 facts, the
\* first up to 5 constraints, the first up to 5 questions that are open or
\* have no status, the first up to 5 plan steps that are pending or have no
\* status, the newest up to 10 artifact refs and the newest up to 5 actions,
\* each in state order, with the version and metrics of the state; the byte
\* cap leaves all of them but the facts as they are.
C33_HeaderSelection ==
    hPhase = "out" =>
        LET h == HeaderBeforeCap(hIn) IN
        /\ h.top_facts = Newest(hIn.facts, MaxHeaderFacts)
        /\ h.top_constraints = Oldest(hIn.constraints, MaxHeaderConstraints)
        /\ h.open_questions =
               OldestWith(hIn.open_questions, {"open", ""}, MaxHeaderQuestions)
        /\ h.next_steps =
               OldestWith(hIn.plan, {"pending", ""}, MaxHeaderPlanSteps)
        /\ h.artifact_refs = Newest(hIn.artifacts, MaxHeaderArtifacts)
        /\ h.last_actions = Newest(hIn.last_actions, MaxHeaderActions)
        /\ h.version = hIn.version /\ h.metrics = hIn.metrics
        /\ ~h.truncated
        /\ hOut = [h EXCEPT !.top_facts = hOut.top_facts,
                            !.truncated = hOut.truncated]
        /\ ~hOut.truncated => hOut = h

\* more than 5 open questions among resolved ones, more than 10 facts, and
\* a version and metrics of their own
C33_FiveOpenOfEleven ==
    /\ hPhase = "out"
    /\ Len(hIn.open_questions) = 2 * MaxHeaderQuestions + 1
    /\ \E i \in 1..Len(hIn.open_questions) :
          hIn.open_questions[i].status = "resolved"
    /\ Len(hOut.open_questions) = MaxHeaderQuestions
    /\ Len(hIn.facts) > MaxHeaderFacts
    /\ hIn.version = 7
    /\ ~hOut.truncated

\* the header before the byte cap with its j oldest facts evicted
Evicted(h, j) ==
    [h EXCEPT !.top_facts = SubSeq(@, j + 1, Len(@)), !.truncated = j > 0]

\* C36: the byte cap removes facts only, the oldest first and one at a time,
\* and stops as soon as the serialization fits or no fact is left; the other
\* lists of the header are not reduced; truncated is true exactly when the
\* byte cap removed a fact.
C36_ByteCapEvictsOldestFactsOnly ==
    hPhase = "out" =>
        LET h == HeaderBeforeCap(hIn)
            k == Len(h.top_facts) - Len(hOut.top_facts)
        IN /\ k \in 0..Len(h.top_facts)
           /\ hOut = Evicted(h, k)
           /\ \A j \in 0..(k - 1) : HeaderBytes(Evicted(h, j)) > MaxHeaderBytes
           /\ HeaderBytes(hOut) <= MaxHeaderBytes \/ hOut.top_facts = <<>>
           /\ hOut.truncated <=> k > 0

\* of eleven facts the count cap dropped one and the byte cap some more, but
\* not all
C36_CountCapThenByteCap ==
    /\ hPhase = "out"
    /\ Len(hIn.facts) = MaxHeaderFacts + 1
    /\ hOut.truncated
    /\ Len(hOut.top_facts) \in 1..(MaxHeaderFacts - 2)
    /\ Len(hOut.top_constraints) = MaxHeaderConstraints

\* eleven small facts: the count cap dropped one, the byte cap none
CountCapOnly ==
    /\ hPhase = "out"
    /\ Len(hIn.facts) = MaxHeaderFacts + 1
    /\ Len(hOut.top_facts) = MaxHeaderFacts
    /\ ~hOut.truncated

\* the refs of a list of artifact refs, and the refs the actions name
RefsOf(as) == {as[i].ref : i \in 1..Len(as)}

ResultRefs(la) == {la[i].r : i \in 1..Len(la)} \ {0}

\* C34: after a compact that returned no error at most 50 actions remain,
\* the artifact refs are the newest 200 followed only by older entries that
\* a remaining action names, so at most 200 plus the number of distinct refs
\* the actions name, and every ref a remaining action names that was among
\* the artifact refs before is among them still.
C34_CompactBounds ==
    (cPhase = "once" /\ cErr[1] = "nil") =>
        LET old   == cPre.artifacts
            new   == cMid.artifacts
            n     == IF Len(old) > MaxArtifactsKeep THEN MaxArtifactsKeep
                     ELSE Len(old)
            named == ResultRefs(cMid.last_actions)
        IN /\ Len(cMid.last_actions) <= MaxActionsKeep
           /\ Len(new) >= n
           /\ \A i \in 1..n : new[i] = old[Len(old) - n + i]
           /\ \A i \in (n + 1)..Len(new) :
                 /\ new[i].ref \in named
                 /\ \E k \in 1..(Len(old) - n) : old[k] = new[i]
           /\ Len(new) <= MaxArtifactsKeep + Cardinality(named)
           /\ \A r \in named \cap RefsOf(old) : r \in RefsOf(new)

\* 250 artifact refs and fifty actions of which one names the oldest ref:
\* 201 refs are left, the oldest among them
C34_OldestOfManyKept ==
    /\ cPhase = "once" /\ cErr[1] = "nil"
    /\ Len(cPre.artifacts) = MaxArtifactsKeep + MaxActionsKeep
    /\ Len(cPre.last_actions) = MaxActionsKeep
    /\ ResultRefs(cMid.last_actions) = {1}
    /\ Len(cMid.artifacts) = MaxArtifactsKeep + 1
    /\ 1 \in RefsOf(cMid.artifacts)

\* C35: building a bundle alone leaves what is stored as it was: for any
\* thread id given, also an empty or unknown one, no thread, state version
\* or event is created or changed.
C35_BuildChangesNothingStored ==
    Built => bStore = BundleStore(bIn.state.version)

(***************************************************************************)
(* The certificate authority across starts (proxy.go:234-353).            *)
(* A certificate or key is written as the number of the start that made   *)
(* it; tls.X509KeyPair accepts a pair whose key is the certificate's.     *)
(* The random source is taken to work.                                     *)
(***************************************************************************)
MaxStarts  == 3      \* starts of the proxy
MaxCaTime  == 3      \* readings of the clock
CaLifetime == 2      \* NotAfter of a CA certificate, in clock readings

NoFiles  == [cert |-> 0, key |-> 0, notAfter |-> 0]
NoCA     == [cert |-> 0, key |-> 0, cached |-> {}]
NoResult == [host |-> "", res |-> "none", loaded |-> FALSE]

\* tls.X509KeyPair followed by x509.ParseCertificate (proxy.go:248-250)
X509KeyPair(pair) == pair.cert # 0 /\ pair.key = pair.cert

\* createCA (proxy.go:259-317): the certificate file is written, then the
\* key file; os.Create of either may fail, and then no CA is returned
createCA(n, certWritten, keyWritten) ==
    LET made == [cert |-> n, key |-> n, notAfter |-> caNow + CaLifetime]
    IN IF ~certWritten THEN [disk |-> caFiles, ca |-> NoCA]
       ELSE IF ~keyWritten
            THEN [disk |-> [made EXCEPT !.key = caFiles.key], ca |-> NoCA]
            ELSE [disk |-> made,
                  ca |-> [cert |-> n, key |-> n, cached |-> {}]]

\* LoadOrCreateCA (proxy.go:244-257): the CA built from the files carries
\* the certificate and tlsCert; its field key is not set
LoadOrCreateCA(certWritten, keyWritten) ==
    /\ caStarts < MaxStarts
    /\ caStarts' = caStarts + 1
    /\ caResult' = NoResult
    /\ IF X509KeyPair(caFiles) /\ caNow < caFiles.notAfter
       THEN /\ caLoaded' = [cert |-> caFiles.cert, key |-> 0, cached |-> {}]
            /\ UNCHANGED caFiles
       ELSE LET c == createCA(caStarts + 1, certWritten, keyWritten)
            IN /\ caLoaded' = c.ca
               /\ caFiles' = c.disk
    /\ UNCHANGED caNow

\* the CA was read from the files, not made by this start
FromFiles(ca) == ca.cert # 0 /\ ca.cert # caStarts

\* x509.CreateCertificate(rand, tmpl, ca.cert, pub, ca.key) (proxy.go:344):
\* it signs with ca.key; a nil *ecdsa.PrivateKey is dereferenced
CreateCertificate(ca) == IF ca.key = 0 THEN "panic" ELSE "ok"

\* CertForHost (proxy.go:321-353)
CertForHost(host) ==
    /\ caLoaded.cert # 0
    /\ LET res == IF host \in caLoaded.cached THEN "ok"
                  ELSE CreateCertificate(caLoaded)
       IN /\ caResult' = [host |-> host, res |-> res,
                          loaded |-> FromFiles(caLoaded)]
          /\ caLoaded' = IF res = "ok"
                         THEN [caLoaded EXCEPT !.cached = @ \cup {host}]
                         ELSE caLoaded
    /\ UNCHANGED <<caFiles, caNow, caStarts>>

CaTick ==
    /\ caNow < MaxCaTime
    /\ caNow' = caNow + 1
    /\ UNCHANGED <<caFiles, caLoaded, caResult, caStarts>>

CaInit ==
    /\ caFiles = NoFiles
    /\ caNow = 0
    /\ caLoaded = NoCA
    /\ caResult = NoResult
    /\ caStarts = 0

\* C38: a reader that tails a thread with since, the id of the last event
\* it received and a limit receives the thread's events once each and in the
\* order they were appended, none skipped: what it has received is the
\* beginning of the appended events, and a request returns the events that
\* were waiting, up to the limit.
C38_TailExactlyOnceInOrder ==
    /\ Len(tlSeen) <= Len(AppendedIds(TailThread))
    /\ tlSeen = SubSeq(AppendedIds(TailThread), 1, Len(tlSeen))
    /\ ~tlShort

\* C39: a CA returned by LoadOrCreateCA mints leaf certificates:
\* CertForHost succeeds for any hostname, when the CA was just generated
\* and when it was loaded from an unexpired ca.crt/ca.key pair.
C39_LoadedOrGeneratedCAMints ==
    caResult.res \in {"none", "ok"}

\* C40: two input tuples (tenant, capability, args, scope, version) that
\* differ in a component never give the same hashed input string, also when
\* tenant, capability or scope contain the separator.
C40_KeyComponentsApart ==
    (kPhase = "out" /\ ~(SameButArgs(kA, kB)
                          /\ Canonical(kA.args) = Canonical(kB.args)))
        => kOut[1] # kOut[2]

(***************************************************************************)
(* The specifications                                                      *)
(***************************************************************************)
ExtraIdle == KeyIdle /\ ArtInit /\ PreviewIdle /\ BundleIdle /\ EventsIdle
    /\ ProxyIdle /\ TunnelInit /\ LockInit /\ ApplyIdle /\ CaInit

Init == StoreInit /\ HeaderIdle /\ CompactIdle /\ CacheIdle /\ ExtraIdle

StoreOnly == UNCHANGED <<headerVars, compactVars, cacheVars, extraVars>>

Next ==
    \/ \E t \in Threads : CreateThread(t) /\ StoreOnly
    \/ \E ref \in StoreRefs : ArtifactPut(ref) /\ StoreOnly
    \/ \E w \in Workers, t \in Threads, i \in OpsIdx :
          PatchCall(w, t, i) /\ StoreOnly
    \/ \E w \in Workers : PatchGet(w) /\ StoreOnly
    \/ \E w \in Workers : PatchPut(w) /\ StoreOnly
    \/ \E w \in Workers : PatchWriteFile(w) /\ StoreOnly
    \/ \E w \in Workers : PatchEvent(w) /\ StoreOnly

Spec == Init /\ [][Next]_vars

InitHeader ==
    StoreInit /\ HeaderInit /\ CompactIdle /\ CacheIdle /\ ExtraIdle

NextHeader ==
    HeaderCall /\ UNCHANGED <<storeVars, compactVars, cacheVars, extraVars>>

SpecHeader == InitHeader /\ [][NextHeader]_vars

InitCompact ==
    StoreInit /\ HeaderIdle /\ CompactInit /\ CacheIdle /\ ExtraIdle

NextCompact ==
    \/ CompactFirst
          /\ UNCHANGED <<storeVars, headerVars, cacheVars, extraVars>>
    \/ CompactSecond
          /\ UNCHANGED <<storeVars, headerVars, cacheVars, extraVars>>

SpecCompact == InitCompact /\ [][NextCompact]_vars

InitCache ==
    StoreInit /\ HeaderIdle /\ CompactIdle /\ CacheInit /\ ExtraIdle

SpecCache == InitCache /\ [][NextCache]_vars

InitInvoke ==
    StoreInit /\ HeaderIdle /\ CompactIdle /\ InvokeInit /\ ExtraIdle

SpecInvoke == InitInvoke /\ [][NextInvoke]_vars

Base == StoreInit /\ HeaderIdle /\ CompactIdle /\ CacheIdle

BaseVars == <<storeVars, headerVars, compactVars, cacheVars>>

InitKey ==
    Base /\ KeyInit /\ ArtInit /\ PreviewIdle /\ BundleIdle /\ EventsIdle
    /\ ProxyIdle /\ TunnelInit /\ LockInit /\ ApplyIdle /\ CaInit

ExceptKey ==
    <<BaseVars, artVars, previewVars, bundleVars, eventVars, proxyVars,
          tunnelVars, lockVars, applyVars, authVars>>

NextKey == KeyCall /\ UNCHANGED ExceptKey

SpecKey == InitKey /\ [][NextKey]_vars

InitArtifacts ==
    Base /\ KeyIdle /\ ArtInit /\ PreviewIdle /\ BundleIdle /\ EventsIdle
    /\ ProxyIdle /\ TunnelInit /\ LockInit /\ ApplyIdle /\ CaInit

ExceptArtifacts ==
    <<BaseVars, keyVars, previewVars, bundleVars, eventVars, proxyVars,
          tunnelVars, lockVars, applyVars, authVars>>

NextArtifacts ==
    \/ \E t \in ArtThreads, ty \in ArtTypes, c \in Contents, ref \in NewRefs,
          fail \in PutFaults :
          Put(t, ty, c, ref, fail) /\ UNCHANGED ExceptArtifacts
    \/ \E t \in ArtThreads, ref \in NewRefs :
          OpenRead(t, ref) /\ UNCHANGED ExceptArtifacts

SpecArtifacts == InitArtifacts /\ [][NextArtifacts]_vars

InitPreview ==
    Base /\ KeyIdle /\ ArtInit /\ PreviewInit /\ BundleIdle /\ EventsIdle
    /\ ProxyIdle /\ TunnelInit /\ LockInit /\ ApplyIdle /\ CaInit

ExceptPreview ==
    <<BaseVars, keyVars, artVars, bundleVars, eventVars, proxyVars,
          tunnelVars, lockVars, applyVars, authVars>>

NextPreview == PreviewCall /\ UNCHANGED ExceptPreview

SpecPreview == InitPreview /\ [][NextPreview]_vars

InitBundle ==
    Base /\ KeyIdle /\ ArtInit /\ PreviewIdle /\ BundleInit /\ EventsIdle
    /\ ProxyIdle /\ TunnelInit /\ LockInit /\ ApplyIdle /\ CaInit

ExceptBundle ==
    <<BaseVars, keyVars, artVars, previewVars, eventVars, proxyVars,
          tunnelVars, lockVars, applyVars, authVars>>

NextBundle == BundleCall /\ UNCHANGED ExceptBundle

SpecBundle == InitBundle /\ [][NextBundle]_vars

InitEvents ==
    Base /\ KeyIdle /\ ArtInit /\ PreviewIdle /\ BundleIdle /\ EventsInit
    /\ ProxyIdle /\ TunnelInit /\ LockInit /\ ApplyIdle /\ CaInit

ExceptEvents ==
    <<BaseVars, keyVars, artVars, previewVars, bundleVars, proxyVars,
          tunnelVars, lockVars, applyVars, authVars>>

NextEvents ==
    \/ \E w \in EvWorkers, t \in EvThreads :
          PlainAppend(w, t) /\ UNCHANGED tailVars /\ UNCHANGED ExceptEvents
    \/ \E w \in EvWorkers, t \in EvThreads, n \in PatchSizes, ok \in BOOLEAN :
          ServerPatch(w, t, n, ok) /\ UNCHANGED tailVars /\ UNCHANGED ExceptEvents
    \/ \E t \in EvThreads, n \in PatchSizes, ok \in BOOLEAN :
          EnginePatch(t, n, ok) /\ UNCHANGED tailVars /\ UNCHANGED ExceptEvents
    \/ \E w \in EvWorkers :
          CounterLoad(w) /\ UNCHANGED tailVars /\ UNCHANGED ExceptEvents
    \/ \E w \in EvWorkers :
          CounterStore(w) /\ UNCHANGED tailVars /\ UNCHANGED ExceptEvents
    \/ \E w \in EvWorkers :
          MakeEvent(w) /\ UNCHANGED tailVars /\ UNCHANGED ExceptEvents
    \/ \E w \in EvWorkers :
          InsertEvent(w) /\ UNCHANGED tailVars /\ UNCHANGED ExceptEvents
    \/ EvTick /\ UNCHANGED tailVars /\ UNCHANGED ExceptEvents
    \/ \E t \in EvThreads, limit \in EvLimits :
          ListCall(t, limit) /\ UNCHANGED tailVars /\ UNCHANGED ExceptEvents
    \/ \E t \in EvThreads, i \in 1..MaxEvCalls, limit \in EvLimits :
          SinceCall(t, i, limit) /\ UNCHANGED tailVars /\ UNCHANGED ExceptEvents
    \/ \E limit \in TailLimits :
          TailPoll(limit) /\ UNCHANGED ExceptEvents

SpecEvents == InitEvents /\ [][NextEvents]_vars

InitProxy ==
    Base /\ KeyIdle /\ ArtInit /\ PreviewIdle /\ BundleIdle /\ EventsIdle
    /\ ProxyInit /\ TunnelInit /\ LockInit /\ ApplyIdle /\ CaInit

ExceptProxy ==
    <<BaseVars, keyVars, artVars, previewVars, bundleVars, eventVars,
          tunnelVars, lockVars, applyVars, authVars>>

NextProxy == handleHTTP /\ UNCHANGED ExceptProxy

SpecProxy == InitProxy /\ [][NextProxy]_vars

InitTunnel ==
    Base /\ KeyIdle /\ ArtInit /\ PreviewIdle /\ BundleIdle /\ EventsIdle
    /\ ProxyIdle /\ TunnelInit /\ LockInit /\ ApplyIdle /\ CaInit

ExceptTunnel ==
    <<BaseVars, keyVars, artVars, previewVars, bundleVars, eventVars,
          proxyVars, lockVars, applyVars, authVars>>

NextTunnel ==
    \/ \E c \in Conns, host \in Hosts, hijacked \in BOOLEAN :
          Connect(c, host, hijacked) /\ UNCHANGED ExceptTunnel
    \/ \E c \in Conns, written \in BOOLEAN :
          Ack(c, written) /\ UNCHANGED ExceptTunnel
    \/ \E c \in Conns :
          CertLock(c) /\ UNCHANGED ExceptTunnel
    \/ \E c \in Conns :
          CertLookup(c) /\ UNCHANGED ExceptTunnel
    \/ \E c \in Conns, made \in BOOLEAN :
          CertMint(c, made) /\ UNCHANGED ExceptTunnel
    \/ \E c \in Conns, done \in BOOLEAN :
          Handshake(c, done) /\ UNCHANGED ExceptTunnel
    \/ \E c \in Conns, req \in TunnelRequests, outcome \in ServeOutcomes :
          Serve(c, req, outcome) /\ UNCHANGED ExceptTunnel

SpecTunnel == InitTunnel /\ [][NextTunnel]_vars

InitLock ==
    Base /\ KeyIdle /\ ArtInit /\ PreviewIdle /\ BundleIdle /\ EventsIdle
    /\ ProxyIdle /\ TunnelInit /\ LockInit /\ ApplyIdle /\ CaInit

ExceptLock ==
    <<BaseVars, keyVars, artVars, previewVars, bundleVars, eventVars,
          proxyVars, tunnelVars, applyVars, authVars>>

NextLock ==
    \/ \E w \in LockWorkers, made \in BOOLEAN :
          OpenStart(w, made) /\ UNCHANGED ExceptLock
    \/ \E w \in LockWorkers, opened, locked \in BOOLEAN :
          Acquire(w, opened, locked) /\ UNCHANGED ExceptLock
    \/ \E w \in LockWorkers, opened \in BOOLEAN :
          OpenDB(w, opened) /\ UNCHANGED ExceptLock
    \/ \E w \in LockWorkers, done \in BOOLEAN :
          InitStores(w, done) /\ UNCHANGED ExceptLock
    \/ \E w \in LockWorkers, done \in BOOLEAN :
          Use(w, done) /\ UNCHANGED ExceptLock
    \/ \E w \in LockWorkers, released \in BOOLEAN :
          Close(w, released) /\ UNCHANGED ExceptLock

SpecLock == InitLock /\ [][NextLock]_vars

SpecLockLive == SpecLock /\ WF_vars(NextLock)

InitApply ==
    Base /\ KeyIdle /\ ArtInit /\ PreviewIdle /\ BundleIdle /\ EventsIdle
    /\ ProxyIdle /\ TunnelInit /\ LockInit /\ ApplyInit /\ CaInit

ExceptApply ==
    <<BaseVars, keyVars, artVars, previewVars, bundleVars, eventVars,
          proxyVars, tunnelVars, lockVars, authVars>>

NextApply == ApplyCall /\ UNCHANGED ExceptApply

SpecApply == InitApply /\ [][NextApply]_vars

InitCA ==
    Base /\ KeyIdle /\ ArtInit /\ PreviewIdle /\ BundleIdle /\ EventsIdle
    /\ ProxyIdle /\ TunnelInit /\ LockInit /\ ApplyIdle /\ CaInit

ExceptCA ==
    <<BaseVars, keyVars, artVars, previewVars, bundleVars, eventVars,
          proxyVars, tunnelVars, lockVars, applyVars>>

NextCA ==
    \/ \E certWritten \in BOOLEAN, keyWritten \in BOOLEAN :
          LoadOrCreateCA(certWritten, keyWritten) /\ UNCHANGED ExceptCA
    \/ \E host \in Hosts :
          CertForHost(host) /\ UNCHANGED ExceptCA
    \/ CaTick /\ UNCHANGED ExceptCA

SpecCA == InitCA /\ [][NextCA]_vars

(***************************************************************************)
(* Properties of Compact                                                   *)
(***************************************************************************)
Returned == cPhase \in {"once", "twice"}

LastErr == cErr[Len(cErr)]

\* every action of st with a result ref has it among st's artifact refs
RefsClosed(st) ==
    \A i \in 1..Len(st.last_actions) :
        st.last_actions[i].r # 0 =>
            \E k \in 1..Len(st.artifacts) :
                st.artifacts[k].ref = st.last_actions[i].r

\* C6: when Compact returns without error every remaining action with a
\* result ref has that ref among the state's artifact refs, and when some
\* remaining action's ref is not among them Compact returns the integrity
\* error.
C6_CompactClosureOrError ==
    Returned => (LastErr = "nil" <=> RefsClosed(cSt))

\* Compact succeeded after cutting the artifact list, and an action that is
\* left refers to an artifact older than the newest MaxArtifactsKeep
C6_PrunedButClosed ==
    /\ cPhase = "once"
    /\ LastErr = "nil"
    /\ Len(cPre.artifacts) > MaxArtifactsKeep
    /\ \E i \in 1..Len(cSt.last_actions) :
          /\ cSt.last_actions[i].r # 0
          /\ cSt.last_actions[i].r \notin
                {cPre.artifacts[k].ref :
                    k \in (Len(cPre.artifacts) - MaxArtifactsKeep + 1)
                            ..Len(cPre.artifacts)}

\* C7: a second Compact with no mutation in between leaves the state (actions
\* with their descriptions, artifact refs, session summary) as the first
\* Compact left it.
C7_CompactIdempotent ==
    (cPhase = "twice" /\ cErr[1] = "nil") => cSt = cMid

\* C8: a Compact that fails its referential-closure check leaves the actions,
\* artifact refs and session summary of the state as they were before the
\* call.
C8_FailedCompactChangesNothing ==
    (cPhase = "once" /\ LastErr = "integrity") => cSt = cPre

====
